---------------------------- MODULE Spec2Model ----------------------------
(***************************************************************************)
(* Model of the mining-design backend: the layout engine                   *)
(* (utils/algorithms.py), the roadway synthesizer, the rule engine         *)
(* (utils/mining_rules.py), the geological analyzer                        *)
(* (utils/geology_analysis.py) and the project store with its endpoints    *)
(* (store.py, routers/).                                                   *)
(*                                                                         *)
(* Numbers.  Python floats are modelled in fixed point: a length is an     *)
(* integer number of 1/Scale metres, an area an integer number of          *)
(* 1/Scale^2 square metres.  A point is held doubled (x2 = 2*x) so that a  *)
(* centre "x - width / 2" stays an integer.                                *)
(*                                                                         *)
(* Polygons.  shapely polygons are modelled on the family of row stacks:   *)
(* a polygon is [x0, y0, rows], rows a sequence of [h, w]; row i is the    *)
(* rectangle [x0, x0 + w] x [its lower edge, + h], the rows stacked upward *)
(* from y0.  On this family buffer, intersection with a strip, bounds,     *)
(* area, centroid and minimum_rotated_rectangle are exact (see each        *)
(* operator).  The layout specification runs generate_smart_layout with    *)
(* rotation_angle = 0, so the layout frame is the frame of the boundary.   *)
(***************************************************************************)
EXTENDS Integers, Sequences, FiniteSets, TLC

VARIABLES
    \* ---- generate_smart_layout (utils/algorithms.py) and its caller
    params,          \* the arguments of the call
    pc,              \* position in generate_design / generate_smart_layout
    rotated_area,    \* the mining area in the layout frame
    face_length,     \* strip height chosen by _determine_face_length
    section_pillar,  \* gap between strips
    current_y,       \* lower edge of the next strip
    workfaces,       \* workfaces emitted so far
    face_id,         \* next workface number
    strips,          \* iterations of the strip loop so far
    result,          \* the dict generate_smart_layout returns
    response,        \* what generate_design answers
    \* ---- generate_roadways_v2 called on its own
    road_args,       \* [workfaces, rotation_angle, centroid]
    road_result,     \* the list it returns (Null before the call)
    \* ---- GeologyAnalyzer.calculate_dip_angle called on its own
    analyzer,        \* self.boreholes of the analyzer
    target_seam,     \* the argument ("" for None)
    dip_result,      \* the dict it returns (Null before the call)
    score_result,    \* calculate_score_at_point: the query and the dict it returns
    \* ---- MiningRules (utils/mining_rules.py) and the choices it drives
    mining_rules,    \* a MiningRules instance
    rule_check,      \* the last validator call on it and its result
    rotation,        \* the last choice of a layout rotation and its inputs
    echoed,          \* the to_dict / from_dict round trip that made mining_rules
    \* ---- the project store and the request handlers around it
    boundary,              \* store.boundary: list of points
    boreholes,             \* store.boreholes: list of borehole dicts
    borehole_coordinates,  \* store.borehole_coordinates
    borehole_layer_data,   \* store.borehole_layer_data
    geology_model,         \* store.geology_model
    scores,                \* store.scores
    design_result,         \* store.design_result
    coord_offset,          \* store.coord_offset
    reply,                 \* the answer to the last request
    served                 \* number of requests answered so far

layoutVars == <<params, pc, rotated_area, face_length, section_pillar,
                current_y, workfaces, face_id, strips, result, response>>

roadVars == <<road_args, road_result>>

geoVars == <<analyzer, target_seam, dip_result, score_result>>
ruleVars == <<mining_rules, rule_check, rotation, echoed>>

storeFields == <<boundary, boreholes, borehole_coordinates, borehole_layer_data,
                 geology_model, scores, design_result, coord_offset>>

storeVars == <<storeFields, reply, served>>

vars == <<layoutVars, roadVars, geoVars, ruleVars, storeVars>>

-----------------------------------------------------------------------------
(* Arithmetic helpers *)

Max(a, b) == IF a >= b THEN a ELSE b
Min(a, b) == IF a <= b THEN a ELSE b
Abs(a) == IF a >= 0 THEN a ELSE -a

RECURSIVE GCD(_, _)
GCD(a, b) == IF b = 0 THEN a ELSE GCD(b, a % b)

RECURSIVE SumTo(_, _)
\* f[1] + ... + f[n]
SumTo(f, n) == IF n = 0 THEN 0 ELSE f[n] + SumTo(f, n - 1)

RECURSIVE MaxOf(_, _)
MaxOf(f, n) == IF n = 1 THEN f[1] ELSE Max(f[n], MaxOf(f, n - 1))

RECURSIVE MinOf(_, _)
MinOf(f, n) == IF n = 1 THEN f[1] ELSE Min(f[n], MinOf(f, n - 1))

RECURSIVE GcdOf(_, _)
GcdOf(f, n) == IF n = 0 THEN 0 ELSE GCD(f[n], GcdOf(f, n - 1))

Null == [none |-> TRUE]

\* An empty dict, '{}'.
EmptyDict == <<>>

\* A dict's get(key, default)
Get(d, key, default) == IF key \in DOMAIN d THEN d[key] ELSE default

\* The project row as the database creates it, and as clear() leaves it.
EmptyStore ==
    /\ boundary = <<>>
    /\ boreholes = <<>>
    /\ borehole_coordinates = <<>>
    /\ borehole_layer_data = <<>>
    /\ geology_model = EmptyDict
    /\ scores = EmptyDict
    /\ design_result = EmptyDict
    /\ coord_offset = [x |-> 0, y |-> 0]
    /\ reply = Null
    /\ served = 0

\* Fixed-point resolution: units per metre.
Scale == 10

M(metres) == metres * Scale
M2(sqm) == sqm * Scale * Scale


-----------------------------------------------------------------------------
(* Rule engine: utils/mining_rules.py *)

\* The default score weights, in hundredths.
default_score_weights ==
    [coal_thickness |-> 35, roof_stability |-> 25, gas_content |-> 20,
     water_inflow |-> 15, geological_structure |-> 5]

\* MiningRules(): the dataclass defaults.  Lengths and thicknesses are in
\* fixed point, angles in degrees, score thresholds in points.
DefaultRules ==
    [face_length_min |-> M(150), face_length_max |-> M(300),
     face_length_preferred |-> M(200),
     advance_length_min |-> M(800), advance_length_max |-> M(2500),
     advance_length_preferred |-> M(1500),
     section_pillar_min |-> M(15), section_pillar_max |-> M(30),
     section_pillar_preferred |-> M(20),
     boundary_pillar_min |-> M(20), boundary_pillar_max |-> M(50),
     boundary_pillar_preferred |-> M(30),
     dip_angle_gentle_max |-> 8, dip_angle_inclined_max |-> 25,
     dip_angle_steep_max |-> 45, pseudo_incline_threshold |-> 15,
     min_minable_thickness |-> M(8) \div 10, thin_seam_max |-> M(13) \div 10,
     medium_seam_max |-> M(35) \div 10,
     layout_direction |-> "strike",
     mining_method |-> "retreat",
     score_weights |-> default_score_weights,
     score_excellent |-> 85, score_good |-> 70, score_acceptable |-> 60]

\* MiningRules.to_dict(): the nested dict sent to the client.
to_dict(rules) ==
    [faceLength |-> [min |-> rules.face_length_min, max |-> rules.face_length_max,
                     preferred |-> rules.face_length_preferred],
     advanceLength |-> [min |-> rules.advance_length_min,
                        max |-> rules.advance_length_max,
                        preferred |-> rules.advance_length_preferred],
     sectionPillar |-> [min |-> rules.section_pillar_min,
                        max |-> rules.section_pillar_max,
                        preferred |-> rules.section_pillar_preferred],
     boundaryPillar |-> [min |-> rules.boundary_pillar_min,
                         max |-> rules.boundary_pillar_max,
                         preferred |-> rules.boundary_pillar_preferred],
     dipAngle |-> [gentleMax |-> rules.dip_angle_gentle_max,
                   inclinedMax |-> rules.dip_angle_inclined_max,
                   steepMax |-> rules.dip_angle_steep_max,
                   pseudoInclineThreshold |-> rules.pseudo_incline_threshold],
     coalThickness |-> [minMinable |-> rules.min_minable_thickness,
                        thinMax |-> rules.thin_seam_max,
                        mediumMax |-> rules.medium_seam_max],
     scoreWeights |-> rules.score_weights,
     scoreThresholds |-> [excellent |-> rules.score_excellent,
                          good |-> rules.score_good,
                          acceptable |-> rules.score_acceptable],
     layoutDirection |-> rules.layout_direction,
     miningMethod |-> rules.mining_method]

\* MiningRules.from_dict(data): every key of data that is there replaces the
\* default; nothing is checked.
from_dict(data) ==
    LET fl == Get(data, "faceLength", EmptyDict)
        al == Get(data, "advanceLength", EmptyDict)
        sp == Get(data, "sectionPillar", EmptyDict)
        bp == Get(data, "boundaryPillar", EmptyDict)
        da == Get(data, "dipAngle", EmptyDict)
        ct == Get(data, "coalThickness", EmptyDict)
    IN  [face_length_min |-> Get(fl, "min", DefaultRules.face_length_min),
         face_length_max |-> Get(fl, "max", DefaultRules.face_length_max),
         face_length_preferred |->
             Get(fl, "preferred", DefaultRules.face_length_preferred),
         advance_length_min |-> Get(al, "min", DefaultRules.advance_length_min),
         advance_length_max |-> Get(al, "max", DefaultRules.advance_length_max),
         advance_length_preferred |->
             Get(al, "preferred", DefaultRules.advance_length_preferred),
         section_pillar_min |-> Get(sp, "min", DefaultRules.section_pillar_min),
         section_pillar_max |-> Get(sp, "max", DefaultRules.section_pillar_max),
         section_pillar_preferred |->
             Get(sp, "preferred", DefaultRules.section_pillar_preferred),
         boundary_pillar_min |-> Get(bp, "min", DefaultRules.boundary_pillar_min),
         boundary_pillar_max |-> Get(bp, "max", DefaultRules.boundary_pillar_max),
         boundary_pillar_preferred |->
             Get(bp, "preferred", DefaultRules.boundary_pillar_preferred),
         dip_angle_gentle_max |-> DefaultRules.dip_angle_gentle_max,
         dip_angle_inclined_max |-> DefaultRules.dip_angle_inclined_max,
         dip_angle_steep_max |-> DefaultRules.dip_angle_steep_max,
         pseudo_incline_threshold |->
             Get(da, "pseudoInclineThreshold", DefaultRules.pseudo_incline_threshold),
         min_minable_thickness |->
             Get(ct, "minMinable", DefaultRules.min_minable_thickness),
         thin_seam_max |-> DefaultRules.thin_seam_max,
         medium_seam_max |-> DefaultRules.medium_seam_max,
         layout_direction |->
             Get(data, "layoutDirection", DefaultRules.layout_direction),
         mining_method |-> Get(data, "miningMethod", DefaultRules.mining_method),
         score_weights |-> Get(data, "scoreWeights", DefaultRules.score_weights),
         score_excellent |-> DefaultRules.score_excellent,
         score_good |-> DefaultRules.score_good,
         score_acceptable |-> DefaultRules.score_acceptable]

\* A face-length validator that turns the bounds themselves down.
validate_face_length_open(rules, length) ==
    IF length <= rules.face_length_min
    THEN [ok |-> FALSE, msg |-> "face_below_min"]
    ELSE IF length >= rules.face_length_max
         THEN [ok |-> FALSE, msg |-> "face_above_max"]
         ELSE [ok |-> TRUE, msg |-> "compliant"]

\* validate_face_length: (is_valid, message); the message is kept as a tag.
validate_face_length(rules, length) ==
    IF length < rules.face_length_min
    THEN [ok |-> FALSE, msg |-> "face_below_min"]
    ELSE IF length > rules.face_length_max
         THEN [ok |-> FALSE, msg |-> "face_above_max"]
         ELSE [ok |-> TRUE, msg |-> "compliant"]

\* validate_advance_length
validate_advance_length(rules, length) ==
    IF length < rules.advance_length_min
    THEN [ok |-> FALSE, msg |-> "advance_below_min"]
    ELSE IF length > rules.advance_length_max
         THEN [ok |-> FALSE, msg |-> "advance_above_max"]
         ELSE [ok |-> TRUE, msg |-> "compliant"]

-----------------------------------------------------------------------------
(* Polygons: shapely on the family of row stacks *)

EmptyPolygon == [x0 |-> 0, y0 |-> 0, rows |-> <<>>]

\* Polygon.is_empty
is_empty(P) == P.rows = <<>>

\* Polygon.area
PolyArea(P) ==
    SumTo([i \in 1..Len(P.rows) |-> P.rows[i].h * P.rows[i].w], Len(P.rows))

\* Polygon.is_valid: a ring of collinear points (a row of height or width 0)
\* is not a valid polygon.
is_valid(P) == \A i \in 1..Len(P.rows) : P.rows[i].h > 0 /\ P.rows[i].w > 0

\* Lower and upper edge of row i.
RowLo(P, i) == P.y0 + SumTo([k \in 1..Len(P.rows) |-> P.rows[k].h], i - 1)
RowHi(P, i) == RowLo(P, i) + P.rows[i].h

\* Polygon.bounds: (min_x, min_y, max_x, max_y)
bounds(P) ==
    [min_x |-> P.x0,
     min_y |-> P.y0,
     max_x |-> P.x0 + MaxOf([i \in 1..Len(P.rows) |-> P.rows[i].w], Len(P.rows)),
     max_y |-> RowHi(P, Len(P.rows))]

\* Polygon.buffer(-margin).  buffer(0) keeps a valid polygon and turns an
\* invalid (zero-area) ring into the empty polygon.  A rectangle eroded by
\* margin is the rectangle shrunk by margin on each side, empty when nothing
\* is left.  (Row stacks of several rows are only buffered by 0: eroding one
\* rounds its reflex corners and leaves the family.)
buffer_inward(P, margin) ==
    IF is_empty(P) \/ ~is_valid(P) THEN EmptyPolygon
    ELSE IF margin = 0 \/ Len(P.rows) > 1 THEN P
    ELSE LET r == P.rows[1]
         IN  IF r.h - 2 * margin > 0 /\ r.w - 2 * margin > 0
             THEN [x0 |-> P.x0 + margin, y0 |-> P.y0 + margin,
                   rows |-> <<[h |-> r.h - 2 * margin, w |-> r.w - 2 * margin]>>]
             ELSE EmptyPolygon

\* rotated_area.intersection(box(min_x, lo, max_x, hi)): the rows clipped to
\* the strip lo..hi, as a polygon (empty when the strip misses the area).
intersection(P, lo, hi) ==
    LET n == Len(P.rows)
        clipped == [i \in 1..n |->
                      [lo |-> Max(lo, RowLo(P, i)), hi |-> Min(hi, RowHi(P, i)),
                       w |-> P.rows[i].w]]
        kept == SelectSeq(clipped, LAMBDA r : r.hi > r.lo)
    IN  IF kept = <<>> THEN EmptyPolygon
        ELSE [x0 |-> P.x0, y0 |-> kept[1].lo,
              rows |-> [i \in 1..Len(kept) |->
                          [h |-> kept[i].hi - kept[i].lo, w |-> kept[i].w]]]

\* Polygon.centroid, doubled: the area-weighted mean of the rows' centres.
\* The weights are divided by their gcd first, which leaves the quotient
\* unchanged; the division rounds down to the fixed-point resolution.
centroid2(P) ==
    LET n == Len(P.rows)
        a == [i \in 1..n |-> P.rows[i].h * P.rows[i].w]
        g == GcdOf(a, n)
        wt == [i \in 1..n |-> a[i] \div g]
        tot == SumTo(wt, n)
    IN  [x |-> 2 * P.x0 + SumTo([i \in 1..n |-> wt[i] * P.rows[i].w], n) \div tot,
         y |-> SumTo([i \in 1..n |-> wt[i] * (RowLo(P, i) + RowHi(P, i))], n) \div tot]

\* Polygon.minimum_rotated_rectangle, as the box [x0, y0, x1, y1].  Every
\* polygon of the family holds the two left corners of its bounding box, so
\* its hull holds a triangle of half the bounding box's area and no
\* enclosing rectangle is smaller than the bounding box.
minimum_rotated_rectangle(P) ==
    LET b == bounds(P)
    IN  [x0 |-> b.min_x, y0 |-> b.min_y, x1 |-> b.max_x, y1 |-> b.max_y]

\* Area of the polygon spanned by a workface's points (the corners of its
\* rectangle).
RectArea(R) == (R.x1 - R.x0) * (R.y1 - R.y0)

\* Whether rectangle R lies inside polygon P: every row of P that R crosses
\* reaches R's right edge, and R stays within P's vertical extent.
RectInside(R, P) ==
    /\ ~is_empty(P)
    /\ R.x0 >= P.x0
    /\ R.y0 >= P.y0
    /\ R.y1 <= RowHi(P, Len(P.rows))
    /\ \A i \in 1..Len(P.rows) :
          (Min(R.y1, RowHi(P, i)) > Max(R.y0, RowLo(P, i)))
              => R.x1 <= P.x0 + P.rows[i].w


-----------------------------------------------------------------------------
(* Rotation: shapely.affinity.rotate *)

\* An angle is held by its cosine and sine times 5, over the angles for
\* which both are integers.
AngleZero == [c |-> 5, s |-> 0]
Angles ==
    {[c |-> 5, s |-> 0], [c |-> 0, s |-> 5], [c |-> -5, s |-> 0],
     [c |-> 0, s |-> -5], [c |-> 3, s |-> 4], [c |-> 4, s |-> 3],
     [c |-> -4, s |-> 3], [c |-> 3, s |-> -4]}

\* -angle
Neg(ang) == [c |-> ang.c, s |-> -ang.s]

\* rotate(p, angle, origin), times 5: origin + R(angle) (p - origin),
\* counter-clockwise positive.
rotate5(p, ang, o) ==
    [x |-> 5 * o.x + ang.c * (p.x - o.x) - ang.s * (p.y - o.y),
     y |-> 5 * o.y + ang.s * (p.x - o.x) + ang.c * (p.y - o.y)]

\* rotate(p, angle, origin), rounded down to the fixed-point resolution.
rotate(p, ang, o) ==
    LET r == rotate5(p, ang, o) IN [x |-> r.x \div 5, y |-> r.y \div 5]

\* A distance that only looks at the x coordinates.
distance_along_x(p, q) == Abs(p.x - q.x)

\* Point.distance between two points; the code only measures between points
\* that share a coordinate.
distance(p, q) ==
    IF p.x = q.x THEN Abs(p.y - q.y)
    ELSE IF p.y = q.y THEN Abs(p.x - q.x)
    ELSE LET d2 == (p.x - q.x) * (p.x - q.x) + (p.y - q.y) * (p.y - q.y)
         IN  CHOOSE r \in 0..d2 : r * r <= d2 /\ (r + 1) * (r + 1) > d2

-----------------------------------------------------------------------------
(* Roadway synthesizer: generate_roadways_v2 *)

main_road_spacing == 15
main_road_offset == 30
main_road_margin == 50

\* A roadway dict.  The path holds the two rotated-back end points times 5,
\* in doubled coordinates; length is the distance measured in the layout
\* frame, doubled like the points.
Roadway(id, type, p, q, ang, o) ==
    [id |-> id, type |-> type,
     path |-> <<rotate5(p, Neg(ang), o), rotate5(q, Neg(ang), o)>>,
     length |-> distance(p, q)]

\* Lanes of which the return lane starts 15 m further out, on the
\* ventilation trunk.
LanesOfVentilation(wf, i, transport_main_x) ==
    LET wf_right_x == wf.x + wf.width
        transport_lane_y == wf.y + wf.length
        return_lane_y == wf.y - wf.length
    IN  [transport_lane_start |-> [x |-> transport_main_x, y |-> transport_lane_y],
         transport_lane_end |-> [x |-> wf_right_x, y |-> transport_lane_y],
         return_lane_start |-> [x |-> transport_main_x - 2 * M(15), y |-> return_lane_y],
         return_lane_end |-> [x |-> wf_right_x, y |-> return_lane_y],
         cut_start |-> [x |-> wf_right_x, y |-> return_lane_y],
         cut_end |-> [x |-> wf_right_x, y |-> transport_lane_y]]

\* The transport lane, return lane and cut of the i-th workface.
LanesOf(wf, i, transport_main_x) ==
    LET wf_right_x == wf.x + wf.width
        transport_lane_y == wf.y + wf.length
        return_lane_y == wf.y - wf.length
    IN  [transport_lane_start |-> [x |-> transport_main_x, y |-> transport_lane_y],
         transport_lane_end |-> [x |-> wf_right_x, y |-> transport_lane_y],
         return_lane_start |-> [x |-> transport_main_x, y |-> return_lane_y],
         return_lane_end |-> [x |-> wf_right_x, y |-> return_lane_y],
         cut_start |-> [x |-> wf_right_x, y |-> return_lane_y],
         cut_end |-> [x |-> wf_right_x, y |-> transport_lane_y]]

RECURSIVE LaneRoadways(_, _, _, _, _)
RECURSIVE LaneRoadwaysCutFirst(_, _, _, _, _)
\* The per-workface part of the list with each cut placed before its lanes.
LaneRoadwaysCutFirst(rotated_centers, i, transport_main_x, ang, o) ==
    IF i > Len(rotated_centers) THEN <<>>
    ELSE LET wf == rotated_centers[i]
             l == LanesOf(wf, i, transport_main_x)
             tag(r) == [r EXCEPT !.id = <<r.id, i>>] @@ [workface |-> wf.id]
         IN  << tag(Roadway("Cut", "cut", l.cut_start, l.cut_end, ang, o)),
                tag(Roadway("Transport-Lane", "transport",
                            l.transport_lane_start, l.transport_lane_end, ang, o)),
                tag(Roadway("Return-Lane", "return",
                            l.return_lane_start, l.return_lane_end, ang, o)) >>
             \o LaneRoadwaysCutFirst(rotated_centers, i + 1, transport_main_x, ang, o)

\* The per-workface part of the list, for workfaces i..n in order.
LaneRoadways(rotated_centers, i, transport_main_x, ang, o) ==
    IF i > Len(rotated_centers) THEN <<>>
    ELSE LET wf == rotated_centers[i]
             l == LanesOf(wf, i, transport_main_x)
             tag(r) == [r EXCEPT !.id = <<r.id, i>>] @@ [workface |-> wf.id]
         IN  << tag(Roadway("Transport-Lane", "transport",
                            l.transport_lane_start, l.transport_lane_end, ang, o)),
                tag(Roadway("Return-Lane", "return",
                            l.return_lane_start, l.return_lane_end, ang, o)),
                tag(Roadway("Cut", "cut", l.cut_start, l.cut_end, ang, o)) >>
             \o LaneRoadways(rotated_centers, i + 1, transport_main_x, ang, o)

\* generate_roadways_v2(workfaces, boundary_points, rotation_angle, centroid,
\* rotated_area, mining_rules).  A workface comes with center (doubled),
\* width and length; half of a width is the width itself in doubled
\* coordinates.
generate_roadways_v2(wfs, ang, o) ==
    IF wfs = <<>> THEN <<>>
    ELSE
    LET n == Len(wfs)
        rotated_centers ==
            [i \in 1..n |->
                LET rp == rotate(wfs[i].center, ang, o)
                IN  [x |-> rp.x, y |-> rp.y, id |-> wfs[i].id,
                     width |-> wfs[i].width, length |-> wfs[i].length]]
        wf_min_x == MinOf([i \in 1..n |-> rotated_centers[i].x - rotated_centers[i].width], n)
        wf_min_y == MinOf([i \in 1..n |-> rotated_centers[i].y - rotated_centers[i].length], n)
        wf_max_y == MaxOf([i \in 1..n |-> rotated_centers[i].y + rotated_centers[i].length], n)
        main_x == wf_min_x - 2 * M(main_road_offset)
        transport_main_x == main_x
        ventilation_main_x == main_x - 2 * M(main_road_spacing)
        main_road_y_start == wf_min_y - 2 * M(main_road_margin)
        main_road_y_end == wf_max_y + 2 * M(main_road_margin)
    IN  << Roadway(<<"Main-Transport">>, "main",
                   [x |-> transport_main_x, y |-> main_road_y_start],
                   [x |-> transport_main_x, y |-> main_road_y_end], ang, o),
           Roadway(<<"Main-Ventilation">>, "ventilation",
                   [x |-> ventilation_main_x, y |-> main_road_y_start],
                   [x |-> ventilation_main_x, y |-> main_road_y_end], ang, o) >>
        \o LaneRoadways(rotated_centers, 1, transport_main_x, ang, o)


-----------------------------------------------------------------------------
(* Geology analyzer: GeologyAnalyzer.calculate_dip_angle *)

\* Coordinates, depths and thicknesses are in fixed-point units like the
\* layout's; dip_angle is held in hundredths of a degree (round(.., 2)),
\* dip_direction, strike_direction and the scores in tenths (round(.., 1)).

\* target_seam = None
NoTarget == "None"

\* not target_seam: None and the empty string.
target_missing(target) == target \in {NoTarget, ""}

\* _normalize_seam_name on the seam names in use: '_' becomes '-', and a
\* name with a seam number gets the coal suffix.
normalize_seam_name(name) ==
    CASE name = "15_4coal" -> "15-4coal"
      [] name = "16-3" -> "16-3coal"
      [] OTHER -> name

\* The first seam of a borehole whose normalized name is the target, as a
\* one-element sequence, or <<>>.
first_matching_seam(bh, target) ==
    LET hits == {k \in 1..Len(bh.coal_seams) :
                    normalize_seam_name(bh.coal_seams[k].name) = target}
    IN  IF hits = {} THEN <<>>
        ELSE <<bh.coal_seams[CHOOSE k \in hits : \A m \in hits : k <= m]>>

RECURSIVE seam_names_in_order(_, _)
\* The keys of seam_counts in insertion order, from borehole i on.
seam_names_in_order(bhs, i) ==
    IF i > Len(bhs) THEN <<>>
    ELSE [k \in 1..Len(bhs[i].coal_seams) |->
             normalize_seam_name(bhs[i].coal_seams[k].name)]
         \o seam_names_in_order(bhs, i + 1)

\* seam_counts[name]
seam_count(names, name) == Cardinality({k \in 1..Len(names) : names[k] = name})

\* max(seam_counts, key=seam_counts.get): the first key holding the largest
\* count.
most_common_seam(names) ==
    LET best == CHOOSE k \in 1..Len(names) :
                    /\ \A m \in 1..Len(names) :
                          seam_count(names, names[m]) <= seam_count(names, names[k])
                    /\ \A m \in 1..(k - 1) :
                          seam_count(names, names[m]) < seam_count(names, names[k])
    IN  names[best]

RECURSIVE collect_points(_, _, _)
\* points: [x, y, -depth] of the target seam in each borehole from i on.
collect_points(bhs, target, i) ==
    IF i > Len(bhs) THEN <<>>
    ELSE LET hit == first_matching_seam(bhs[i], target)
         IN  (IF hit = <<>> THEN <<>>
              ELSE <<[x |-> bhs[i].x, y |-> bhs[i].y, z |-> -hit[1].depth]>>)
             \o collect_points(bhs, target, i + 1)

\* The least-squares plane z = ax + by + c through the points, from the
\* normal equations on centred coordinates: a = num_a / den, b = num_b / den.
fit_plane(points) ==
    LET n == Len(points)
        sx == SumTo([i \in 1..n |-> points[i].x], n)
        sy == SumTo([i \in 1..n |-> points[i].y], n)
        sz == SumTo([i \in 1..n |-> points[i].z], n)
        X == [i \in 1..n |-> n * points[i].x - sx]
        Y == [i \in 1..n |-> n * points[i].y - sy]
        Z == [i \in 1..n |-> n * points[i].z - sz]
        sxx == SumTo([i \in 1..n |-> X[i] * X[i]], n)
        sxy == SumTo([i \in 1..n |-> X[i] * Y[i]], n)
        syy == SumTo([i \in 1..n |-> Y[i] * Y[i]], n)
        sxz == SumTo([i \in 1..n |-> X[i] * Z[i]], n)
        syz == SumTo([i \in 1..n |-> Y[i] * Z[i]], n)
        den == sxx * syy - sxy * sxy
        g == GCD(GCD(Abs(sxz * syy - syz * sxy), Abs(syz * sxx - sxz * sxy)), Abs(den))
    IN  [num_a |-> (sxz * syy - syz * sxy) \div g,
         num_b |-> (syz * sxx - sxz * sxy) \div g,
         den |-> den \div g]

\* round(degrees(arctan(sqrt(a^2 + b^2))), 2) in hundredths of a degree,
\* for whole-number gradients up to one metre per metre on each axis.
dip_angle_of(plane) ==
    LET t2 == plane.num_a * plane.num_a + plane.num_b * plane.num_b
    IN  CASE t2 = 0 -> 0
          [] plane.den = 1 /\ t2 = 1 -> 4500
          [] plane.den = 1 /\ t2 = 2 -> 5474

\* round(degrees(arctan2(a, b)), 1) in tenths of a degree, shifted by 360
\* when negative, for the same gradients.
dip_direction_of(plane) ==
    LET a == plane.num_a
        b == plane.num_b
        base == IF a = 0 THEN 0 ELSE IF b = 0 THEN 900 ELSE 450
        deg == IF a >= 0 THEN (IF b >= 0 THEN base ELSE 1800 - base)
               ELSE (IF b >= 0 THEN -base ELSE base - 1800)
    IN  IF deg < 0 THEN deg + 3600 ELSE deg

\* confidence of a fit: lstsq reports no residual for three points or
\* fewer (the fit is exact), and the code then says 'medium'; otherwise the
\* RMS residual decides.  sq_sum is the residual sum of squares times
\* (n * den)^2.
fit_confidence(points, plane) ==
    LET n == Len(points)
        sx == SumTo([i \in 1..n |-> points[i].x], n)
        sy == SumTo([i \in 1..n |-> points[i].y], n)
        sz == SumTo([i \in 1..n |-> points[i].z], n)
        sq_sum == SumTo([i \in 1..n |->
                     LET r == plane.den * (n * points[i].z - sz)
                              - plane.num_a * (n * points[i].x - sx)
                              - plane.num_b * (n * points[i].y - sy)
                     IN  r * r], n)
        scale == n * n * n * plane.den * plane.den
    IN  IF n <= 3 THEN "medium"
        ELSE IF sq_sum < M(5) * M(5) * scale THEN "high"
        ELSE IF sq_sum < M(15) * M(15) * scale THEN "medium"
        ELSE "low"

\* calculate_dip_angle(target_seam)
calculate_dip_angle(bhs, target) ==
    IF Len(bhs) < 3
    THEN [dip_angle |-> 0, dip_direction |-> 0, strike_direction |-> 900,
          points_used |-> Len(bhs), seam_name |-> target,
          confidence |-> "low", message |-> "too_few_boreholes"]
    ELSE
    LET names == seam_names_in_order(bhs, 1)
    IN  IF target_missing(target) /\ names = <<>>
        THEN [dip_angle |-> 0, dip_direction |-> 0, confidence |-> "none"]
        ELSE
        LET seam == IF target_missing(target) THEN most_common_seam(names) ELSE target
            points == collect_points(bhs, seam, 1)
            plane == fit_plane(points)
        IN  IF Len(points) < 3
            THEN [dip_angle |-> 0, dip_direction |-> 0,
                  points_used |-> Len(points), seam_name |-> seam,
                  confidence |-> "low", message |-> "too_few_points"]
            ELSE [dip_angle |-> dip_angle_of(plane),
                  dip_direction |-> dip_direction_of(plane),
                  strike_direction |-> (dip_direction_of(plane) + 900) % 3600,
                  points_used |-> Len(points), seam_name |-> seam,
                  confidence |-> fit_confidence(points, plane),
                  gradient |-> plane]

\* round(p / q, 0) for p >= 0, q > 0: halves go to the even neighbour.
RoundHalfEven(p, q) ==
    LET f == p \div q
        r == p % q
    IN  IF 2 * r < q THEN f
        ELSE IF 2 * r > q THEN f + 1
        ELSE IF f % 2 = 0 THEN f ELSE f + 1

\* _get_rock_score(rock_name, rock_type): the first key of the score table
\* contained in the name decides, so a name such as medium_sandstone scores
\* as sandstone does; an empty or unknown name scores 50.
get_rock_score(rock_name, rock_type) ==
    CASE rock_name = "" -> 50
      [] rock_name = "conglomerate" -> 90
      [] rock_name \in {"sandstone", "fine_sandstone", "medium_sandstone"} ->
            IF rock_type = "roof" THEN 80 ELSE 85
      [] rock_name = "mudstone" -> IF rock_type = "roof" THEN 40 ELSE 30
      [] rock_name = "limestone" -> IF rock_type = "roof" THEN 85 ELSE 90
      [] OTHER -> 50

RECURSIVE collect_data_points(_, _, _)
\* data_points: the first seam of each borehole from i on that is the target
\* (any seam when the target is None).
collect_data_points(bhs, target, i) ==
    IF i > Len(bhs) THEN <<>>
    ELSE LET hits == {k \in 1..Len(bhs[i].coal_seams) :
                         \/ target = NoTarget
                         \/ normalize_seam_name(bhs[i].coal_seams[k].name) = target}
             seam == bhs[i].coal_seams[CHOOSE k \in hits : \A m \in hits : k <= m]
         IN  (IF hits = {} THEN <<>>
              ELSE <<[x |-> bhs[i].x, y |-> bhs[i].y,
                      thickness |-> seam.thickness,
                      roof_rock |-> seam.roof_rock,
                      floor_rock |-> seam.floor_rock]>>)
             \o collect_data_points(bhs, target, i + 1)

RECURSIVE ProductExcept(_, _, _)
\* The product of f[1..n] without f[skip].
ProductExcept(f, n, skip) ==
    IF n = 0 THEN 1
    ELSE (IF n = skip THEN 1 ELSE f[n]) * ProductExcept(f, n - 1, skip)

\* The inverse-square weights of the data points at (x, y), scaled to whole
\* numbers: 1 / dist^2 with dist raised to 1 m, times the product of all the
\* squared distances.  x and y are doubled coordinates.
idw_weights(data_points, x, y) ==
    LET n == Len(data_points)
        d2 == [i \in 1..n |->
                 Max((2 * data_points[i].x - x) * (2 * data_points[i].x - x)
                     + (2 * data_points[i].y - y) * (2 * data_points[i].y - y),
                     4 * M(1) * M(1))]
    IN  [i \in 1..n |-> ProductExcept(d2, n, i)]

\* sum(v * w) over the normalized weights, as the fraction num / den; equal
\* values need no weights.
idw_mean(values, data_points, x, y) ==
    LET n == Len(values)
        w == idw_weights(data_points, x, y)
        g == GcdOf(w, n)
    IN  IF \A i \in 1..n : values[i] = values[1]
        THEN [num |-> values[1], den |-> 1]
        ELSE [num |-> SumTo([i \in 1..n |-> values[i] * (w[i] \div g)], n),
              den |-> SumTo([i \in 1..n |-> w[i] \div g], n)]

\* A step function whose best class takes 3.5 m in.
thickness_score_of_closed(avg) ==
    IF 10 * avg.num < M(8) * avg.den THEN 20
    ELSE IF 10 * avg.num < M(13) * avg.den THEN 60
    ELSE IF 10 * avg.num <= M(35) * avg.den THEN 90
    ELSE IF avg.num < M(6) * avg.den THEN 80
    ELSE 70

\* The step function of the interpolated thickness.
thickness_score_of(avg) ==
    IF 10 * avg.num < M(8) * avg.den THEN 20
    ELSE IF 10 * avg.num < M(13) * avg.den THEN 60
    ELSE IF 10 * avg.num < M(35) * avg.den THEN 90
    ELSE IF avg.num < M(6) * avg.den THEN 80
    ELSE 70

\* A no-data answer with a zero score.
no_data_result_zero == [total_score |-> 0, message |-> "no_data"]

\* {'total_score': 50, 'message': '无数据'}, the answer without data points
no_data_result == [total_score |-> 500, message |-> "no_data"]

\* calculate_score_at_point(x, y, target_seam), at a doubled point; scores
\* in tenths, interpolated_thickness in hundredths of a metre.
calculate_score_at_point(bhs, x, y, target) ==
    LET data_points == collect_data_points(bhs, target, 1)
        n == Len(data_points)
        avg_thickness == idw_mean([i \in 1..n |-> data_points[i].thickness],
                                  data_points, x, y)
        avg_roof == idw_mean([i \in 1..n |->
                                 get_rock_score(data_points[i].roof_rock, "roof")],
                             data_points, x, y)
        avg_floor == idw_mean([i \in 1..n |->
                                  get_rock_score(data_points[i].floor_rock, "floor")],
                              data_points, x, y)
        thickness_score == thickness_score_of(avg_thickness)
    IN  IF n = 0 THEN no_data_result
        ELSE [total_score |->
                 RoundHalfEven(8 * thickness_score * avg_roof.den * avg_floor.den
                               + 7 * avg_roof.num * avg_floor.den
                               + 5 * avg_floor.num * avg_roof.den,
                               2 * avg_roof.den * avg_floor.den),
              thickness_score |-> 10 * thickness_score,
              roof_score |-> RoundHalfEven(10 * avg_roof.num, avg_roof.den),
              floor_score |-> RoundHalfEven(10 * avg_floor.num, avg_floor.den),
              interpolated_thickness |->
                 RoundHalfEven(10 * avg_thickness.num, avg_thickness.den),
              data_points_count |-> n]

-----------------------------------------------------------------------------
(* Layout engine: generate_smart_layout *)

min_mining_area == 1000
min_part_area == 500
min_fallback_area == 100
fallback_face_height == 200
face_length_step == 10

\* int(v) of a length: truncated to whole metres.
IntMetres(v) == (v \div Scale) * Scale

RECURSIVE BestFaceLength(_, _, _, _, _, _)
\* The loop of _determine_face_length from candidate test_length on;
\* best_waste = -1 stands for float('inf').
BestFaceLength(available_length, pillar, test_length, max_len, best_length, best_waste) ==
    IF test_length > max_len THEN best_length
    ELSE LET num_faces == (available_length + pillar) \div (test_length + pillar)
             total_used == num_faces * test_length + (num_faces - 1) * pillar
             waste == available_length - total_used
             better == num_faces >= 1 /\ 0 <= waste
                       /\ (best_waste = -1 \/ waste < best_waste)
         IN  BestFaceLength(available_length, pillar,
                            test_length + M(face_length_step), max_len,
                            IF better THEN test_length ELSE best_length,
                            IF better THEN waste ELSE best_waste)

\* _determine_face_length(available_length, mining_rules)
determine_face_length(available_length, rules) ==
    IF available_length <= rules.face_length_max
    THEN Min(available_length, rules.face_length_max)
    ELSE BestFaceLength(available_length, rules.section_pillar_preferred,
                        IntMetres(rules.face_length_min),
                        IntMetres(rules.face_length_max),
                        rules.face_length_preferred, -1)

\* A section pillar that is always the preferred one of the rule set.
choose_section_pillar_preferred(pillar_width, rules) ==
    rules.section_pillar_preferred

\* section_pillar = pillar_width if pillar_width else section_pillar_preferred
choose_section_pillar(pillar_width, rules) ==
    IF pillar_width # 0 THEN pillar_width ELSE rules.section_pillar_preferred

\* The strip loop's condition: current_y + face_length <= max_y + 1
strip_fits(area, y, fl) == y + fl <= bounds(area).max_y + M(1)

\* A validity that any face length out of range clears.
part_is_valid_strict(rules, part_length) ==
    validate_face_length(rules, part_length).ok

\* is_valid of a part: only a face length below 0.6 x the minimum clears it.
part_is_valid(rules, part_length) ==
    ~(~validate_face_length(rules, part_length).ok
      /\ 10 * part_length < 6 * rules.face_length_min)

\* validation_msgs of a part, "; ".join-ed, or the compliant text.
part_validation_msg(rules, part_length, part_width) ==
    LET lv == validate_face_length(rules, part_length)
        av == validate_advance_length(rules, part_width)
        msgs == (IF lv.ok THEN <<>> ELSE <<lv.msg>>)
                \o (IF av.ok THEN <<>> ELSE <<av.msg>>)
    IN  IF msgs = <<>> THEN <<"compliant">> ELSE msgs

\* geology_analyzer = None
NoAnalyzer == <<>>

\* The workface dict built from one part of a strip (rotation_angle = 0:
\* original_shape is the part itself).  avgScore is in tenths: the
\* analyzer's total score at the centre, or 75 + 10 * (1 - face_id / 10)
\* without an analyzer.
make_workface(part, rules, fid, geology_analyzer, target) ==
    LET b == bounds(part)
        center == centroid2(part)
        part_width == b.max_x - b.min_x
        part_length == b.max_y - b.min_y
    IN  [id |-> fid,
         center |-> center,
         width |-> part_width,
         length |-> part_length,
         area |-> PolyArea(part),
         points |-> minimum_rotated_rectangle(part),
         avgScore |-> IF geology_analyzer # NoAnalyzer
                      THEN calculate_score_at_point(geology_analyzer, center.x,
                                                    center.y, target).total_score
                      ELSE 850 - 10 * fid,
         isValid |-> part_is_valid(rules, part_length),
         validationMsg |-> part_validation_msg(rules, part_length, part_width),
         faceLength |-> part_length,
         advanceLength |-> part_width]

\* One pass through the body of the strip loop: the loop variables after it.
sweep_strip(area, rules, sp, fl, y, wfs, fid, geology_analyzer, target) ==
    LET strip_min_y == y
        strip_max_y == Min(y + fl, bounds(area).max_y)
        actual_length == strip_max_y - strip_min_y
        part == intersection(area, strip_min_y, strip_max_y)
        skip == \/ 10 * actual_length < 8 * rules.face_length_min
                \/ is_empty(part)
                \/ PolyArea(part) < M2(min_part_area)
    IN  [current_y |-> strip_max_y + sp,
         workfaces |-> IF skip THEN wfs
                       ELSE Append(wfs, make_workface(part, rules, fid,
                                                      geology_analyzer, target)),
         face_id |-> IF skip THEN fid ELSE fid + 1]

\* stats of the primary layout
layout_stats(wfs, rules) ==
    LET n == Len(wfs)
        valid_count == Cardinality({i \in 1..n : wfs[i].isValid})
    IN  [totalArea |-> SumTo([i \in 1..n |-> wfs[i].area], n),
         count |-> n,
         validCount |-> valid_count,
         invalidCount |-> n - valid_count,
         miningMethod |-> IF rules.layout_direction = "strike"
                          THEN "strike_longwall" ELSE "dip_longwall"]

RECURSIVE FallbackFaces(_, _, _, _)
\* The workfaces of bands i .. num_faces - 1 of _generate_fallback_layout.
FallbackFaces(area, i, num_faces, face_height) ==
    IF i >= num_faces THEN <<>>
    ELSE LET b == bounds(area)
             strip_min_y == b.min_y + (i * (b.max_y - b.min_y)) \div num_faces
             strip_max_y == b.min_y + ((i + 1) * (b.max_y - b.min_y)) \div num_faces
             part == intersection(area, strip_min_y, strip_max_y)
             rest == FallbackFaces(area, i + 1, num_faces, face_height)
         IN  IF is_empty(part) \/ PolyArea(part) < M2(min_fallback_area)
             THEN rest
             ELSE << [id |-> i + 1,
                      center |-> centroid2(part),
                      width |-> b.max_x - b.min_x,
                      length |-> face_height,
                      area |-> PolyArea(part),
                      points |-> minimum_rotated_rectangle(part),
                      avgScore |-> 700,
                      isValid |-> FALSE,
                      validationMsg |-> <<"fallback">>] >> \o rest

\* _generate_fallback_layout(boundary_points, rotated_area, rotation_angle,
\* centroid, mining_rules, face_width, pillar_width)
generate_fallback_layout(area, ang, o) ==
    LET b == bounds(area)
        area_height == b.max_y - b.min_y
        num_faces == Max(1, area_height \div M(fallback_face_height))
        face_height == area_height \div num_faces
        wfs == FallbackFaces(area, 0, num_faces, face_height)
    IN  IF is_empty(area)
        THEN [workfaces |-> <<>>, roadways |-> <<>>,
              stats |-> [error |-> "rotated_area_empty", miningMethod |-> "fallback"]]
        ELSE IF area_height <= 0
        THEN [workfaces |-> <<>>, roadways |-> <<>>,
              stats |-> [error |-> "zero_height", miningMethod |-> "fallback"]]
        ELSE [workfaces |-> wfs,
              roadways |-> generate_roadways_v2(wfs, ang, o),
              stats |-> [totalArea |-> SumTo([i \in 1..Len(wfs) |-> wfs[i].area], Len(wfs)),
                         count |-> Len(wfs),
                         miningMethod |-> "fallback"]]


-----------------------------------------------------------------------------
(* Inputs of the layout specification *)

\* Largest number of rows of a boundary.
MaxRows == 2

RowHeights == {M(100), M(130), M(220)}
RowWidths == {M(900), M(1000)}
RowSet == [h : RowHeights, w : RowWidths]

\* Row stacks in which neighbouring rows differ in width (one polygon, one
\* representation).
Stacks ==
    UNION {{r \in [1..n -> RowSet] : \A i \in 1..(n - 1) : r[i].w # r[i + 1].w}
           : n \in 1..MaxRows}

Rect(w, h) == [x0 |-> 0, y0 |-> 0, rows |-> <<[h |-> h, w |-> w]>>]

\* A 1000 m square, a 0.4 m x 3000 m sliver, two boundaries that the pillar
\* erodes to too little, a ring of collinear points, and a sliver 1 m wide
\* and 1000 m tall on a foot 0.4 m wide and 200 m tall, and a block 500 m
\* wide and 880 m tall under a cap 1000 m wide and 120 m tall.
SpecialBoundaries ==
    {Rect(M(1000), M(1000)), Rect(4, M(3000)), Rect(M(80), M(80)),
     Rect(M(50), M(50)), Rect(M(1000), 0),
     [x0 |-> 0, y0 |-> 0, rows |-> <<[h |-> M(200), w |-> 4], [h |-> M(1000), w |-> M(1)]>>],
     [x0 |-> 0, y0 |-> 0, rows |-> <<[h |-> M(880), w |-> M(500)], [h |-> M(120), w |-> M(1000)]>>]}

Boundaries == {[x0 |-> 0, y0 |-> 0, rows |-> r] : r \in Stacks} \cup SpecialBoundaries

Margins == {0, M(30)}
\* pillarWidth of the request: the endpoint takes any number.
PillarWidths == {0, M(30), -M(150)}

\* Most iterations of the strip loop that a run is followed through.
MaxStrips == 25
RuleSets == {DefaultRules, [DefaultRules EXCEPT !.advance_length_min = M(950)]}

LayoutParams ==
    {q \in [boundary : Boundaries, boundary_margin : Margins,
            pillar_width : PillarWidths, mining_rules : RuleSets] :
        Len(q.boundary.rows) > 1 => q.boundary_margin = 0}

-----------------------------------------------------------------------------
(* generate_design -> generate_smart_layout, step by step *)

\* The layout steps leave the other components alone.
LayoutFrame == UNCHANGED <<roadVars, geoVars, ruleVars, storeVars>>

InitLayout ==
    /\ params \in LayoutParams
    /\ pc = "start"
    /\ rotated_area = EmptyPolygon
    /\ face_length = 0
    /\ section_pillar = 0
    /\ current_y = 0
    /\ workfaces = <<>>
    /\ face_id = 1
    /\ strips = 0
    /\ result = Null
    /\ response = Null
    /\ road_args = Null
    /\ road_result = Null
    /\ analyzer = <<>>
    /\ target_seam = NoTarget
    /\ dip_result = Null
    /\ score_result = Null
    /\ mining_rules = DefaultRules /\ rule_check = Null /\ rotation = Null
    /\ echoed = Null
    /\ EmptyStore

\* The dict returned when the mining area is empty or too small.
insufficient_area_result ==
    [workfaces |-> <<>>, roadways |-> <<>>, stats |-> [error |-> "mining_area_too_small"]]

\* mining_area: the boundary eroded by the boundary pillar.
mining_area_of(q) == buffer_inward(q.boundary, q.boundary_margin)

\* mining_area.is_empty or mining_area.area < 1000
area_insufficient(mining_area) ==
    is_empty(mining_area) \/ PolyArea(mining_area) < M2(min_mining_area)

\* Steps 1-5: polygon, erosion, area check, rotation (by 0), face length,
\* section pillar.
Prepare ==
    /\ pc = "start"
    /\ LET mining_area == mining_area_of(params)
       IN  IF area_insufficient(mining_area)
           THEN /\ result' = insufficient_area_result
                /\ pc' = "return"
                /\ UNCHANGED <<rotated_area, face_length, section_pillar, current_y>>
           ELSE /\ rotated_area' = mining_area
                /\ face_length' = determine_face_length(
                       bounds(mining_area).max_y - bounds(mining_area).min_y,
                       params.mining_rules)
                /\ section_pillar' = choose_section_pillar(params.pillar_width,
                                                           params.mining_rules)
                /\ current_y' = bounds(mining_area).min_y
                /\ pc' = "sweep"
                /\ UNCHANGED result
    /\ UNCHANGED <<params, workfaces, face_id, strips, response>>
    /\ LayoutFrame

\* Step 6: one iteration of the strip loop (a run is followed for MaxStrips
\* iterations at most).
SweepStrip ==
    /\ pc = "sweep"
    /\ strip_fits(rotated_area, current_y, face_length)
    /\ strips < MaxStrips
    /\ strips' = strips + 1
    /\ LET nxt == sweep_strip(rotated_area, params.mining_rules, section_pillar,
                              face_length, current_y, workfaces, face_id,
                              NoAnalyzer, NoTarget)
       IN  /\ current_y' = nxt.current_y
           /\ workfaces' = nxt.workfaces
           /\ face_id' = nxt.face_id
    /\ UNCHANGED <<params, pc, rotated_area, face_length, section_pillar,
                   result, response>>
    /\ LayoutFrame

\* The loop is over and no workface was emitted: the fallback layout.
Fallback ==
    /\ pc = "sweep"
    /\ ~strip_fits(rotated_area, current_y, face_length)
    /\ workfaces = <<>>
    /\ result' = generate_fallback_layout(rotated_area, AngleZero,
                                          centroid2(rotated_area))
    /\ pc' = "return"
    /\ UNCHANGED <<params, rotated_area, face_length, section_pillar, current_y,
                   workfaces, face_id, strips, response>>
    /\ LayoutFrame

\* The loop is over with workfaces: steps 7-8, roadways and stats.
Finish ==
    /\ pc = "sweep"
    /\ ~strip_fits(rotated_area, current_y, face_length)
    /\ workfaces # <<>>
    /\ result' = [workfaces |-> workfaces,
                  roadways |-> generate_roadways_v2(workfaces, AngleZero,
                                                    centroid2(rotated_area)),
                  stats |-> layout_stats(workfaces, params.mining_rules)]
    /\ pc' = "return"
    /\ UNCHANGED <<params, rotated_area, face_length, section_pillar, current_y,
                   workfaces, face_id, strips, response>>
    /\ LayoutFrame

\* generate_design's answer to the caller, built from the returned dict.
design_response(res) ==
    [status |-> 200, success |-> TRUE, panels |-> res.workfaces,
     roadways |-> res.roadways, stats |-> res.stats]

Respond ==
    /\ pc = "return"
    /\ response' = design_response(result)
    /\ pc' = "done"
    /\ UNCHANGED <<params, rotated_area, face_length, section_pillar, current_y,
                   workfaces, face_id, strips, result>>
    /\ LayoutFrame

NextLayout == Prepare \/ SweepStrip \/ Fallback \/ Finish \/ Respond

SpecLayout == InitLayout /\ [][NextLayout]_vars


-----------------------------------------------------------------------------
(* Properties of the layout run *)

\* The run has returned its dict.
Returned == pc \in {"return", "done"}

\* C1 -- validity consistency: every workface of the primary strip sweep has
\* isValid true exactly when validate_face_length(length) and
\* validate_advance_length(width) both pass under the rules of the run, and
\* every workface of the fallback layout has isValid false.
C1_ValidityConsistency ==
    /\ \A i \in 1..Len(workfaces) :
          workfaces[i].isValid <=>
             /\ validate_face_length(params.mining_rules, workfaces[i].length).ok
             /\ validate_advance_length(params.mining_rules, workfaces[i].width).ok
    /\ (Returned /\ ~area_insufficient(mining_area_of(params)) /\ workfaces = <<>>)
          => \A i \in 1..Len(result.workfaces) : ~result.workfaces[i].isValid

\* C2 -- insufficient area: when the boundary eroded by boundaryMargin is
\* empty or below 1000 m2 (a collinear boundary included), the caller gets a
\* hard failure and no success-shaped design result.
C2_InsufficientAreaFails ==
    (pc = "done" /\ area_insufficient(mining_area_of(params)))
        => (~response.success /\ response.status # 200)

\* C3 -- fallback guarantee: when the mining area passes the area check and
\* the primary sweep emits no workface, the returned layout still holds at
\* least one workface, and every fallback workface has isValid false.
C3_FallbackGuarantee ==
    (Returned /\ ~area_insufficient(mining_area_of(params)) /\ workfaces = <<>>)
        => /\ Len(result.workfaces) >= 1
           /\ \A i \in 1..Len(result.workfaces) : ~result.workfaces[i].isValid

\* C6 -- coverage: every emitted workface polygon (its points) lies inside
\* the mining area, the boundary eroded by boundaryMargin.
C6_WorkfacesInsideMiningArea ==
    Returned =>
        \A i \in 1..Len(result.workfaces) :
            RectInside(result.workfaces[i].points, mining_area_of(params))

\* C7 -- closure/area: for every emitted workface the area of the polygon
\* given by points is within 1% of the recorded area field.
C7_PointsAreaMatchesArea ==
    Returned =>
        \A i \in 1..Len(result.workfaces) :
            LET wf == result.workfaces[i]
            IN  /\ RectArea(wf.points) > 0
                /\ Abs(RectArea(wf.points) - wf.area) <= wf.area \div 100

\* C17 -- face-length selection: with E the extent of the rotated area along
\* the layout axis, the face length is E when face_length_min <= E <=
\* face_length_max; otherwise it is the candidate L in {face_length_min,
\* face_length_min + 10, ...} up to face_length_max with the least leftover
\* E - (n*L + (n-1)*p), n = floor((E+p)/(L+p)), p the section pillar the
\* sweep applies, the smallest such L on a tie; so it lies within
\* [face_length_min, face_length_max].
C17_FaceLengthChoice ==
    (pc # "start" /\ ~is_empty(rotated_area)) =>
        LET E == bounds(rotated_area).max_y - bounds(rotated_area).min_y
            lo == params.mining_rules.face_length_min
            hi == params.mining_rules.face_length_max
            p == section_pillar
            Candidates == {L \in lo..hi : (L - lo) % M(face_length_step) = 0}
            n(L) == (E + p) \div (L + p)
            leftover(L) == E - (n(L) * L + (n(L) - 1) * p)
        IN  IF lo <= E /\ E <= hi THEN face_length = E
            ELSE /\ face_length \in Candidates
                 /\ \A L \in Candidates :
                       \/ leftover(face_length) < leftover(L)
                       \/ (leftover(face_length) = leftover(L) /\ face_length <= L)

C19_ConsecutiveIds ==
    Returned =>
        /\ \A k \in 1..Len(result.workfaces) : result.workfaces[k].id = k
        /\ \A k \in 1..(Len(result.workfaces) - 1) :
               result.workfaces[k].center.y <= result.workfaces[k + 1].center.y

\* C20 -- strip-sweep termination: the strip loop visits at most
\* (extent along the layout axis) / face_length_min + 1 strips, for every
\* pillarWidth the endpoint accepts, and so comes to an end.
C20_StripBound ==
    ~is_empty(rotated_area) =>
        strips * params.mining_rules.face_length_min
            <= (bounds(rotated_area).max_y - bounds(rotated_area).min_y)
               + params.mining_rules.face_length_min

\* The bounding box of the workface group in the layout frame, in doubled
\* coordinates: wf_min_x, wf_max_x, wf_min_y, wf_max_y.
workface_box(wfs) ==
    LET n == Len(wfs)
    IN  [min_x |-> MinOf([i \in 1..n |-> wfs[i].center.x - wfs[i].width], n),
         max_x |-> MaxOf([i \in 1..n |-> wfs[i].center.x + wfs[i].width], n),
         min_y |-> MinOf([i \in 1..n |-> wfs[i].center.y - wfs[i].length], n),
         max_y |-> MaxOf([i \in 1..n |-> wfs[i].center.y + wfs[i].length], n)]

\* A path point of a returned roadway in doubled layout coordinates (the
\* layout run rotates by 0, which leaves the factor 5 of rotate5).
PathPoint(r, k) == [x |-> r.path[k].x \div 5, y |-> r.path[k].y \div 5]

\* The result holds a roadway network.
HasRoadways == Returned /\ result.roadways # <<>>

\* C21 -- trunk side selection: the two trunks lie on the low-x side of the
\* workface box unless the clearance on the high side exceeds the clearance
\* on the low side by more than 50 m, and then on the high side; either way
\* they are parallel, 15 m apart and span the box plus 50 m at each end.
C21_TrunkSide ==
    HasRoadways =>
        LET wb == workface_box(result.workfaces)
            ts == PathPoint(result.roadways[1], 1)
            te == PathPoint(result.roadways[1], 2)
            vs == PathPoint(result.roadways[2], 1)
            ve == PathPoint(result.roadways[2], 2)
            area_bounds == bounds(rotated_area)
            low_clearance == wb.min_x - 2 * area_bounds.min_x
            high_clearance == 2 * area_bounds.max_x - wb.max_x
        IN  /\ ts.x = te.x /\ vs.x = ve.x
            /\ Abs(ts.x - vs.x) = 2 * M(main_road_spacing)
            /\ ts.y = wb.min_y - 2 * M(main_road_margin)
            /\ vs.y = ts.y
            /\ te.y = wb.max_y + 2 * M(main_road_margin)
            /\ ve.y = te.y
            /\ IF high_clearance - low_clearance > 2 * M(50)
               THEN ts.x > wb.max_x /\ vs.x > wb.max_x
               ELSE ts.x < wb.min_x /\ vs.x < wb.min_x

\* C22 -- aggregate stats: every returned result with at least one workface,
\* from the primary sweep or from the fallback, has stats whose count is the
\* number of workfaces, validCount the number of workfaces with isValid
\* true, invalidCount = count - validCount, and totalArea the sum of the
\* workfaces' areas.
C22_AggregateStats ==
    (Returned /\ Len(result.workfaces) >= 1) =>
        LET wfs == result.workfaces
            n == Len(wfs)
            st == result.stats
        IN  /\ {"count", "validCount", "invalidCount", "totalArea"} \subseteq DOMAIN st
            /\ st.count = n
            /\ st.validCount = Cardinality({i \in 1..n : wfs[i].isValid})
            /\ st.invalidCount = st.count - st.validCount
            /\ st.totalArea = SumTo([i \in 1..n |-> wfs[i].area], n)

\* The pillar gap asked for by the arguments of the run: pillarWidth if
\* non-zero, else the rule set's preferred section pillar.
PillarGap ==
    IF params.pillar_width # 0 THEN params.pillar_width
    ELSE params.mining_rules.section_pillar_preferred

\* C25 -- section-pillar separation: in the primary sweep with a
\* non-negative pillar gap g, each iteration moves the lower edge of the
\* next strip to this strip's upper edge + g, never below the upper edge,
\* and any two workfaces emitted so far lie at least g apart along the
\* layout axis.
C25_SectionPillarSeparation ==
    [][(PillarGap >= 0 /\ pc = "sweep" /\ strips' = strips + 1) =>
          LET strip_max_y == Min(current_y + face_length, bounds(rotated_area).max_y)
          IN  /\ current_y' = strip_max_y + PillarGap
              /\ current_y' >= strip_max_y
              /\ strip_max_y >= current_y
              /\ \A i \in 1..Len(workfaces') : \A j \in 1..Len(workfaces') :
                     i < j => workfaces'[j].points.y0
                                  >= workfaces'[i].points.y1 + PillarGap]_vars

\* Two workfaces have been emitted under a 30 m pillar, exactly 30 m apart.
C25_Witness ==
    /\ pc = "sweep"
    /\ params.pillar_width = M(30)
    /\ Len(workfaces) >= 2
    /\ workfaces[2].points.y0 = workfaces[1].points.y1 + M(30)

\* A point in doubled coordinates lies inside or on the polygon P.
InsideOrOn(p, P) ==
    \E i \in 1..Len(P.rows) :
        /\ 2 * RowLo(P, i) <= p.y /\ p.y <= 2 * RowHi(P, i)
        /\ 2 * P.x0 <= p.x /\ p.x <= 2 * (P.x0 + P.rows[i].w)

\* C28 -- roadways stay inside the mine: every path point of every roadway
\* of a returned layout (both trunks with their end margins, all lanes and
\* cuts) lies inside or on the original, un-eroded boundary polygon.
C28_RoadwaysInsideBoundary ==
    HasRoadways =>
        \A k \in 1..Len(result.roadways) : \A e \in 1..2 :
            InsideOrOn(PathPoint(result.roadways[k], e), params.boundary)

-----------------------------------------------------------------------------
(* generate_roadways_v2 as a function of its arguments *)

\* Largest number of workfaces handed to generate_roadways_v2.
MaxWorkfaces == 2

\* Workface centres and centroids (doubled coordinates); their differences
\* are multiples of 5, so rotating a centre into the layout frame is exact.
RoadCenters == {[x |-> 0, y |-> 0], [x |-> 2000, y |-> 500], [x |-> 500, y |-> 3000]}
RoadCentroids == {[x |-> 0, y |-> 0], [x |-> 1000, y |-> 500]}
RoadFaces == [center : RoadCenters, width : {M(100)}, length : {M(50), M(100)}]

\* Workface lists as a layout hands them over; ids grow along the list and
\* may leave gaps, as the fallback's do when it skips a band.
RoadWorkfaces ==
    UNION {{[i \in 1..n |-> f[i] @@ [id |-> 2 * i]] : f \in [1..n -> RoadFaces]}
           : n \in 0..MaxWorkfaces}

InitRoad ==
    /\ road_args \in [workfaces : RoadWorkfaces, rotation_angle : Angles,
                      centroid : RoadCentroids]
    /\ road_result = Null
    /\ params = Null /\ pc = "idle" /\ rotated_area = EmptyPolygon
    /\ face_length = 0 /\ section_pillar = 0 /\ current_y = 0
    /\ workfaces = <<>> /\ face_id = 1 /\ strips = 0
    /\ result = Null /\ response = Null
    /\ analyzer = <<>> /\ target_seam = NoTarget /\ dip_result = Null
    /\ score_result = Null
    /\ mining_rules = DefaultRules /\ rule_check = Null /\ rotation = Null
    /\ echoed = Null
    /\ EmptyStore

GenerateRoadways ==
    /\ road_result = Null
    /\ road_result' = generate_roadways_v2(road_args.workfaces,
                                           road_args.rotation_angle,
                                           road_args.centroid)
    /\ UNCHANGED <<road_args, layoutVars, geoVars, ruleVars, storeVars>>

NextRoad == GenerateRoadways

SpecRoad == InitRoad /\ [][NextRoad]_vars

-----------------------------------------------------------------------------
(* Properties of generate_roadways_v2 *)

\* C4 -- roadway composition and order: for n >= 1 workfaces the list holds
\* exactly 2 + 3n roadways: a 'main' one, a 'ventilation' one, then for each
\* workface in input order a 'transport' lane, a 'return' lane and a 'cut',
\* each tagged with that workface's id; for no workfaces the list is empty.
C4_RoadwayComposition ==
    road_result # Null =>
        LET wfs == road_args.workfaces
            n == Len(wfs)
            r == road_result
        IN  IF n = 0 THEN r = <<>>
            ELSE /\ Len(r) = 2 + 3 * n
                 /\ r[1].type = "main"
                 /\ r[2].type = "ventilation"
                 /\ \A i \in 1..n :
                       /\ r[3 * i].type = "transport"
                       /\ r[3 * i + 1].type = "return"
                       /\ r[3 * i + 2].type = "cut"
                       /\ \A k \in 0..2 : r[3 * i + k].workface = wfs[i].id

\* Roadways were generated for the largest workface list.
C4_Witness ==
    /\ road_result # Null
    /\ Len(road_args.workfaces) = MaxWorkfaces
    /\ Len(road_result) = 2 + 3 * MaxWorkfaces
    /\ road_result[3 * MaxWorkfaces + 2].workface = 2 * MaxWorkfaces

\* C8 -- roadway length: for every roadway the length field is the Euclidean
\* distance between the two points of its rotated-back path, for every
\* rotation angle and centroid.  The path is held times 5 and the length
\* doubled like the coordinates, so the squares are compared exactly.
C8_RoadwayLength ==
    road_result # Null =>
        \A i \in 1..Len(road_result) :
            LET r == road_result[i]
                dx == r.path[2].x - r.path[1].x
                dy == r.path[2].y - r.path[1].y
            IN  /\ Len(r.path) = 2
                /\ (5 * r.length) * (5 * r.length) = dx * dx + dy * dy

\* Roadways were generated under a rotation off the axes, about a centroid
\* off the origin, and a lane has a slanted path of positive length.
C8_Witness ==
    /\ road_result # Null
    /\ road_args.rotation_angle.c = 3
    /\ road_args.centroid.x # 0
    /\ \E i \in 1..Len(road_result) :
          /\ road_result[i].type = "transport"
          /\ road_result[i].length > 0
          /\ road_result[i].path[1].x # road_result[i].path[2].x
          /\ road_result[i].path[1].y # road_result[i].path[2].y

\* The point p lies on the segment from a to b: collinear with its ends and
\* between them.  A rotation keeps this relation, so it holds of the
\* returned paths exactly when it holds in the layout frame.
OnSegment(p, a, b) ==
    /\ (b.x - a.x) * (p.y - a.y) = (b.y - a.y) * (p.x - a.x)
    /\ Min(a.x, b.x) <= p.x /\ p.x <= Max(a.x, b.x)
    /\ Min(a.y, b.y) <= p.y /\ p.y <= Max(a.y, b.y)

\* C26 -- roadway connectivity: for every workface the transport lane and
\* the return lane both start at a point on the transport trunk segment, and
\* the two end points of the cut are the far end points of the workface's
\* return lane and transport lane; so trunk, lanes and cuts hang together.
C26_RoadwayConnectivity ==
    (road_result # Null /\ road_result # <<>>) =>
        LET r == road_result
            ts == PathPoint(r[1], 1)
            te == PathPoint(r[1], 2)
        IN  \A i \in 1..Len(road_args.workfaces) :
                LET transport_lane == r[3 * i]
                    return_lane == r[3 * i + 1]
                    cut == r[3 * i + 2]
                IN  /\ OnSegment(PathPoint(transport_lane, 1), ts, te)
                    /\ OnSegment(PathPoint(return_lane, 1), ts, te)
                    /\ PathPoint(cut, 1) = PathPoint(return_lane, 2)
                    /\ PathPoint(cut, 2) = PathPoint(transport_lane, 2)

\* The network of two workfaces has been built in a frame turned off the
\* axes, around a centroid that is not a workface centre.
C26_Witness ==
    /\ road_result # Null
    /\ Len(road_result) = 8
    /\ road_args.rotation_angle = [c |-> 3, s |-> 4]
    /\ road_args.workfaces[1].center # road_args.workfaces[2].center
    /\ PathPoint(road_result[3], 1) # PathPoint(road_result[4], 1)

-----------------------------------------------------------------------------
(* calculate_dip_angle as a function of the analyzer's boreholes *)

\* The borehole sites; the k-th borehole of an analyzer stands at the k-th
\* site.
GeoSites == <<[x |-> 0, y |-> 0], [x |-> M(1), y |-> 0], [x |-> 0, y |-> M(1)]>>

\* A CoalSeamInfo with the roof and floor of a typical seam.
Seam(name, depth) ==
    [name |-> name, thickness |-> M(3), depth |-> depth,
     roof_rock |-> "sandstone", floor_rock |-> "mudstone"]

\* A seam 3.5 m thick between the best-scoring roof and floor.
BestSeam ==
    [name |-> "15-4coal", thickness |-> M(7) \div 2, depth |-> M(100),
     roof_rock |-> "conglomerate", floor_rock |-> "conglomerate"]

\* What a borehole may hold: nothing, one seam at one of two depths under
\* two spellings of its name, another seam, both seams, or the best seam.
SeamLists ==
    {<<>>,
     <<BestSeam>>,
     <<Seam("15-4coal", M(100))>>,
     <<Seam("15_4coal", M(101))>>,
     <<Seam("16-3", M(100))>>,
     <<Seam("16-3", M(100)), Seam("15-4coal", M(101))>>}

TargetSeams == {NoTarget, "", "15-4coal", "16-3coal"}

Analyzers ==
    UNION {{[i \in 1..n |-> [id |-> i, x |-> GeoSites[i].x, y |-> GeoSites[i].y,
                             coal_seams |-> f[i]]] : f \in [1..n -> SeamLists]}
           : n \in 0..Len(GeoSites)}

InitGeo ==
    /\ analyzer \in Analyzers
    /\ target_seam \in TargetSeams
    /\ dip_result = Null
    /\ score_result = Null
    /\ mining_rules = DefaultRules /\ rule_check = Null /\ rotation = Null
    /\ echoed = Null
    /\ params = Null /\ pc = "idle" /\ rotated_area = EmptyPolygon
    /\ face_length = 0 /\ section_pillar = 0 /\ current_y = 0
    /\ workfaces = <<>> /\ face_id = 1 /\ strips = 0
    /\ result = Null /\ response = Null
    /\ road_args = Null /\ road_result = Null
    /\ EmptyStore

CalculateDipAngle ==
    /\ dip_result = Null
    /\ dip_result' = calculate_dip_angle(analyzer, target_seam)
    /\ UNCHANGED <<analyzer, target_seam, score_result, layoutVars, roadVars,
                   ruleVars, storeVars>>

\* Where the score is asked for (doubled coordinates): at each borehole
\* site and at the corner opposite the first one.
ScorePoints ==
    {[x |-> 2 * GeoSites[k].x, y |-> 2 * GeoSites[k].y] : k \in 1..Len(GeoSites)}
        \cup {[x |-> 2 * M(1), y |-> 2 * M(1)]}

CalculateScoreAtPoint ==
    /\ score_result = Null
    /\ \E p \in ScorePoints :
          score_result' =
              [x |-> p.x, y |-> p.y,
               value |-> calculate_score_at_point(analyzer, p.x, p.y, target_seam)]
    /\ UNCHANGED <<analyzer, target_seam, dip_result, layoutVars, roadVars,
                   ruleVars, storeVars>>

NextGeo == CalculateDipAngle \/ CalculateScoreAtPoint

SpecGeo == InitGeo /\ [][NextGeo]_vars

\* The number of data points the call has for its seam: boreholes holding the
\* given target, or holding the most common seam when no target is given.
DataPoints ==
    LET names == seam_names_in_order(analyzer, 1)
        seam == IF ~target_missing(target_seam) THEN target_seam
                ELSE IF names = <<>> THEN NoTarget ELSE most_common_seam(names)
    IN  IF Len(analyzer) < 3 THEN Len(analyzer)
        ELSE Len(collect_points(analyzer, seam, 1))

\* C10 -- degenerate geology: whenever fewer than 3 data points are available
\* (fewer than 3 boreholes, fewer than 3 boreholes holding the target seam,
\* or no seam in any borehole when no target is given), calculate_dip_angle
\* returns confidence 'low' with dip angle 0 and dip direction 0.
C10_DegenerateGeology ==
    (dip_result # Null /\ DataPoints < 3)
        => /\ dip_result.confidence = "low"
           /\ dip_result.dip_angle = 0
           /\ dip_result.dip_direction = 0

\* C11 -- every result of calculate_dip_angle carries dip angle, dip
\* direction, strike direction, confidence and points used; the dip direction
\* is in [0, 360) and the strike direction is (dip direction + 90) mod 360.
C11_DipResultFields ==
    dip_result # Null =>
        /\ {"dip_angle", "dip_direction", "strike_direction", "confidence",
            "points_used"} \subseteq DOMAIN dip_result
        /\ dip_result.dip_direction >= 0
        /\ dip_result.dip_direction < 3600
        /\ dip_result.strike_direction = (dip_result.dip_direction + 900) % 3600

\* The query point is the site of one of the analyzer's boreholes.
AtBorehole ==
    \E i \in 1..Len(analyzer) :
        score_result.x = 2 * analyzer[i].x /\ score_result.y = 2 * analyzer[i].y

\* C12 -- IDW sanity: with 3 boreholes that all hold the seam 3.5 m thick
\* under the best roof and floor (score 90), one of them at the query point,
\* calculate_score_at_point returns a total score within 1% of 90.
C12_IdwSanity ==
    (/\ score_result # Null
     /\ Len(analyzer) = 3
     /\ \A i \in 1..3 : analyzer[i].coal_seams = <<BestSeam>>
     /\ target_seam \in {NoTarget, "15-4coal"}
     /\ AtBorehole)
        => /\ "total_score" \in DOMAIN score_result.value
           /\ Abs(score_result.value.total_score - 900) <= 9

\* No borehole of the analyzer holds the target seam (any seam, when the
\* target is None).
NoSeamData ==
    \A i \in 1..Len(analyzer) : \A k \in 1..Len(analyzer[i].coal_seams) :
        /\ target_seam # NoTarget
        /\ normalize_seam_name(analyzer[i].coal_seams[k].name) # target_seam

\* C13 -- no-data scoring: when no borehole holds the target seam (zero
\* boreholes and boreholes without seams included), calculate_score_at_point
\* returns the neutral total score 50 together with the no-data message.
C13_NoDataScore ==
    (score_result # Null /\ NoSeamData)
        => /\ score_result.value.total_score = 500
           /\ score_result.value.message = "no_data"

\* Three boreholes that hold seams, none of them the target, were scored.
C13_Witness ==
    /\ score_result # Null /\ NoSeamData
    /\ Len(analyzer) = 3
    /\ \A i \in 1..3 : analyzer[i].coal_seams # <<>>

\* Some borehole of the analyzer holds the target seam (any seam, when the
\* target is None).
Holders ==
    {i \in 1..Len(analyzer) :
        \E k \in 1..Len(analyzer[i].coal_seams) :
            \/ target_seam = NoTarget
            \/ normalize_seam_name(analyzer[i].coal_seams[k].name) = target_seam}

C24_FitConfidence ==
    (dip_result # Null /\ "gradient" \in DOMAIN dip_result) =>
        LET points == collect_points(analyzer, dip_result.seam_name, 1)
            plane == dip_result.gradient
            n == Len(points)
            sx == SumTo([i \in 1..n |-> points[i].x], n)
            sy == SumTo([i \in 1..n |-> points[i].y], n)
            sz == SumTo([i \in 1..n |-> points[i].z], n)
            sq_sum == SumTo([i \in 1..n |->
                         LET res == plane.den * (n * points[i].z - sz)
                                    - plane.num_a * (n * points[i].x - sx)
                                    - plane.num_b * (n * points[i].y - sy)
                         IN  res * res], n)
            scale == n * n * n * plane.den * plane.den
        IN  dip_result.confidence =
                IF sq_sum = 0 \/ sq_sum < M(5) * M(5) * scale THEN "high"
                ELSE IF sq_sum < M(15) * M(15) * scale THEN "medium"
                ELSE "low"

-----------------------------------------------------------------------------
(* MiningRules: construction and the range validators *)

\* What a client may send as miningRules: each key is there or not.
RuleDicts ==
    {fl @@ al @@ sw @@ ld :
        fl \in {EmptyDict,
                [faceLength |-> [min |-> M(100)]],
                [faceLength |-> [min |-> M(100), max |-> M(200)]],
                [faceLength |-> [max |-> M(100)]]},
        al \in {EmptyDict, [advanceLength |-> [min |-> M(500), max |-> M(1000)]]},
        sw \in {EmptyDict,
                [scoreWeights |-> [coal_thickness |-> 50, roof_stability |-> 40]],
                [scoreWeights |-> [coal_thickness |-> 60, roof_stability |-> 40]]},
        ld \in {EmptyDict, [layoutDirection |-> "dip"]}}

\* The lengths the validators are asked about: each bound in use, and the
\* neighbours of it one fixed-point step away.
FaceBounds == {M(100), M(150), M(200), M(300)}
AdvanceBounds == {M(500), M(800), M(1000), M(2500)}
RuleLengths(used) == UNION {{b - 1, b, b + 1} : b \in used}

\* MiningRules instances as the constructor and attribute assignments make
\* them: the defaults, and the defaults with some fields set.
RuleInstances ==
    {DefaultRules,
     [DefaultRules EXCEPT !.face_length_min = M(100), !.section_pillar_min = M(10),
                          !.pseudo_incline_threshold = 12,
                          !.min_minable_thickness = M(1),
                          !.layout_direction = "dip", !.mining_method = "advance"],
     [DefaultRules EXCEPT !.dip_angle_gentle_max = 10],
     [DefaultRules EXCEPT !.score_excellent = 90, !.medium_seam_max = M(4)]}

InitRules ==
    /\ mining_rules \in RuleInstances
    /\ rule_check = Null
    /\ rotation = Null
    /\ echoed = Null
    /\ params = Null /\ pc = "idle" /\ rotated_area = EmptyPolygon
    /\ face_length = 0 /\ section_pillar = 0 /\ current_y = 0
    /\ workfaces = <<>> /\ face_id = 1 /\ strips = 0
    /\ result = Null /\ response = Null
    /\ road_args = Null /\ road_result = Null
    /\ analyzer = <<>> /\ target_seam = NoTarget /\ dip_result = Null
    /\ score_result = Null
    /\ EmptyStore

\* MiningRules.from_dict(data): a new instance, not yet asked anything.
FromDict ==
    /\ \E data \in RuleDicts : mining_rules' = from_dict(data)
    /\ rule_check' = Null
    /\ echoed' = Null
    /\ UNCHANGED <<rotation, layoutVars, roadVars, geoVars, storeVars>>

\* MiningRules.from_dict(rules.to_dict()): the echoed rule set sent back.
RoundTrip ==
    /\ mining_rules' = from_dict(to_dict(mining_rules))
    /\ echoed' = [rules |-> mining_rules, dict |-> to_dict(mining_rules),
                  back |-> from_dict(to_dict(mining_rules))]
    /\ rule_check' = Null
    /\ UNCHANGED <<rotation, layoutVars, roadVars, geoVars, storeVars>>

ValidateFaceLength ==
    /\ \E length \in RuleLengths(FaceBounds) :
          rule_check' = [fn |-> "face", length |-> length, rules |-> mining_rules,
                         result |-> validate_face_length(mining_rules, length)]
    /\ UNCHANGED <<mining_rules, rotation, echoed, layoutVars, roadVars, geoVars,
                   storeVars>>

ValidateAdvanceLength ==
    /\ \E length \in RuleLengths(AdvanceBounds) :
          rule_check' = [fn |-> "advance", length |-> length, rules |-> mining_rules,
                         result |-> validate_advance_length(mining_rules, length)]
    /\ UNCHANGED <<mining_rules, rotation, echoed, layoutVars, roadVars, geoVars,
                   storeVars>>

\* np.degrees(np.arctan2(dy, dx)) on the eight directions of the compass.
atan2_degrees(dy, dx) ==
    CASE dy = 0 /\ dx >= 0 -> 0
      [] dy = 0 /\ dx < 0 -> 180
      [] dx = 0 /\ dy > 0 -> 90
      [] dx = 0 /\ dy < 0 -> -90
      [] dy = dx /\ dx > 0 -> 45
      [] dy = dx /\ dx < 0 -> -135
      [] dy = -dx /\ dx > 0 -> -45
      [] dy = -dx /\ dx < 0 -> 135

\* The closed rings minimum_rotated_rectangle may return for its rectangle:
\* shapely fixes neither the first corner nor the sense of the ring.
MrrRings(P) ==
    LET R == minimum_rotated_rectangle(P)
        c == <<[x |-> R.x0, y |-> R.y0], [x |-> R.x1, y |-> R.y0],
               [x |-> R.x1, y |-> R.y1], [x |-> R.x0, y |-> R.y1]>>
    IN  {[i \in 1..5 |-> c[((k + sense * (i - 1)) % 4) + 1]] :
            k \in 0..3, sense \in {1, 3}}

\* _auto_detect_direction on the ring of the rectangle: minus the angle of
\* the first of its longest edges (the sort by length is stable).
auto_detect_direction(rect_coords) ==
    LET n == Len(rect_coords) - 1
        length == [i \in 1..n |-> distance(rect_coords[i], rect_coords[i + 1])]
        angle == [i \in 1..n |->
                    atan2_degrees(rect_coords[i + 1].y - rect_coords[i].y,
                                  rect_coords[i + 1].x - rect_coords[i].x)]
        longest == CHOOSE i \in 1..n :
                       /\ \A j \in 1..n : length[j] <= length[i]
                       /\ \A j \in 1..(i - 1) : length[j] < length[i]
    IN  -angle[longest]

\* Step 3 of generate_smart_layout: rotation_angle in degrees.
choose_rotation(manual_roadways, dip_direction, rules, rect_coords) ==
    IF Len(manual_roadways) > 0
    THEN LET path == Get(manual_roadways[1], "path", <<>>)
         IN  IF Len(path) >= 2
             THEN -atan2_degrees(path[Len(path)].y - path[1].y,
                                 path[Len(path)].x - path[1].x)
             ELSE 0
    ELSE IF dip_direction # 0
    THEN IF rules.layout_direction = "strike"
         THEN -((dip_direction + 90) % 360)
         ELSE -dip_direction
    ELSE auto_detect_direction(rect_coords)

\* userEdits.roadways of a design request: none, a hint without a path, a
\* hint with a single point, hints along the axes and the diagonals, and two
\* hints that disagree.
ManualRoadwayHints ==
    LET pt(x, y) == [x |-> x, y |-> y]
        hint(x, y) == [path |-> <<pt(M(10), M(10)), pt(M(20), M(30)),
                                  pt(M(10) + x, M(10) + y)>>]
    IN  {<<>>, <<[id |-> "R1"]>>, <<[path |-> <<pt(M(10), M(10))>>]>>,
         <<hint(M(100), 0)>>, <<hint(0, M(100))>>, <<hint(-M(100), M(100))>>,
         <<hint(0, -M(100))>>, <<hint(0, M(100)), hint(M(100), 0)>>}

\* What a design request says about the dip direction: nothing, or a
\* direction in [0, 360) (0 is due north).
DipParams == {EmptyDict} \cup {[dipDirection |-> d] : d \in {0, 45, 90, 300}}

\* Mining areas that are wider than tall, taller than wide, and square.
RotationAreas ==
    {Rect(M(1000), M(300)), Rect(M(300), M(1000)), Rect(M(500), M(500))}

\* generate_design reads the hints and the dip direction from the request
\* (a missing dipDirection reads as 0) and generate_smart_layout picks the
\* rotation.
ChooseRotation ==
    /\ \E hints \in ManualRoadwayHints, dip \in DipParams, area \in RotationAreas :
          \E rect_coords \in MrrRings(area) :
             rotation' =
                [manual_roadways |-> hints, params |-> dip, mining_area |-> area,
                 layout_direction |-> mining_rules.layout_direction,
                 rotation_angle |->
                    choose_rotation(hints, Get(dip, "dipDirection", 0),
                                    mining_rules, rect_coords)]
    /\ UNCHANGED <<mining_rules, rule_check, echoed, layoutVars, roadVars, geoVars,
                   storeVars>>

NextRotation == ChooseRotation

\* The rotation is chosen under the default rules or under dip layout.
InitRotation ==
    /\ mining_rules \in {DefaultRules, from_dict([layoutDirection |-> "dip"])}
    /\ rule_check = Null
    /\ rotation = Null
    /\ echoed = Null
    /\ params = Null /\ pc = "idle" /\ rotated_area = EmptyPolygon
    /\ face_length = 0 /\ section_pillar = 0 /\ current_y = 0
    /\ workfaces = <<>> /\ face_id = 1 /\ strips = 0
    /\ result = Null /\ response = Null
    /\ road_args = Null /\ road_result = Null
    /\ analyzer = <<>> /\ target_seam = NoTarget /\ dip_result = Null
    /\ score_result = Null
    /\ EmptyStore

SpecRotation == InitRotation /\ [][NextRotation]_vars

NextRules == FromDict \/ RoundTrip \/ ValidateFaceLength \/ ValidateAdvanceLength

SpecRules == InitRules /\ [][NextRules]_vars

\* The lower and upper bound a recorded validator call was held against.
CheckedMin ==
    IF rule_check.fn = "face" THEN rule_check.rules.face_length_min
    ELSE rule_check.rules.advance_length_min
CheckedMax ==
    IF rule_check.fn = "face" THEN rule_check.rules.face_length_max
    ELSE rule_check.rules.advance_length_max

\* C14 -- range validators: validate_face_length(L) is not ok exactly when
\* L < face_length_min or L > face_length_max (both bounds are accepted),
\* with a message naming a violated bound, and ok with the compliant message
\* otherwise; validate_advance_length does the same against the advance
\* bounds; the rule set is as it was before the call.
C14_RangeValidators ==
    rule_check # Null =>
        LET L == rule_check.length
            r == rule_check.result
            below == IF rule_check.fn = "face" THEN "face_below_min"
                     ELSE "advance_below_min"
            above == IF rule_check.fn = "face" THEN "face_above_max"
                     ELSE "advance_above_max"
        IN  /\ r.ok <=> ~(L < CheckedMin \/ L > CheckedMax)
            /\ r.ok => r.msg = "compliant"
            /\ ~r.ok => \/ (r.msg = below /\ L < CheckedMin)
                        \/ (r.msg = above /\ L > CheckedMax)
            /\ mining_rules = rule_check.rules

\* A face length on a bound of a client's rule set was accepted.
C14_Witness ==
    /\ rule_check # Null
    /\ rule_check.fn = "face"
    /\ rule_check.rules # DefaultRules
    /\ rule_check.length = rule_check.rules.face_length_max
    /\ rule_check.result.ok

\* C15 -- score-weight invariant: the score weights of every MiningRules
\* instance sum to 1.0.
C15_ScoreWeightsSumToOne ==
    LET w == mining_rules.score_weights
        keys == DOMAIN w
        ks == CHOOSE q \in [1..Cardinality(keys) -> keys] :
                  \A k \in keys : \E i \in DOMAIN q : q[i] = k
    IN  SumTo([i \in 1..Cardinality(keys) |-> w[ks[i]]], Cardinality(keys)) = 100

\* C16 -- rotation-angle priority: (a) with a manual hint the layout is
\* aligned to the first hint's direction; (b) otherwise, with a dip direction
\* in [0, 360), to the strike direction (dip direction + 90) under
\* layout_direction = 'strike' and to the dip direction itself otherwise;
\* (c) otherwise to the longest edge of the mining area's minimum-area
\* bounding rectangle.  A hint whose path has fewer than 2 points has no
\* direction and is left open.
C16_RotationPriority ==
    rotation # Null =>
        LET hints == rotation.manual_roadways
            direction == (-rotation.rotation_angle) % 360
            path == Get(hints[1], "path", <<>>)
            b == bounds(rotation.mining_area)
            w == b.max_x - b.min_x
            h == b.max_y - b.min_y
        IN  IF hints # <<>>
            THEN Len(path) >= 2 =>
                    direction = atan2_degrees(path[Len(path)].y - path[1].y,
                                              path[Len(path)].x - path[1].x) % 360
            ELSE IF "dipDirection" \in DOMAIN rotation.params
            THEN direction = IF rotation.layout_direction = "strike"
                             THEN (rotation.params.dipDirection + 90) % 360
                             ELSE rotation.params.dipDirection
            ELSE \/ (w >= h /\ direction \in {0, 180})
                 \/ (h >= w /\ direction \in {90, 270})

\* C29 -- rule-set round trip: for every MiningRules value r,
\* from_dict(r.to_dict()) equals r on every field that to_dict exports.
C29_RuleSetRoundTrip ==
    echoed # Null => to_dict(echoed.back) = echoed.dict

-----------------------------------------------------------------------------
(* The project store and its request handlers *)

\* Stored coordinates are plain fixed-point numbers (not doubled).

\* The coordinate above which a boundary is shifted to the origin.
normalize_threshold == 100

\* Store.get_normalized_boundary: the list it returns and the coord_offset
\* it leaves in the store.
get_normalized_boundary(bnd, offset) ==
    LET n == Len(bnd)
        min_x == MinOf([i \in 1..n |-> bnd[i].x], n)
        min_y == MinOf([i \in 1..n |-> bnd[i].y], n)
    IN  IF bnd = <<>> THEN [value |-> <<>>, coord_offset |-> offset]
        ELSE IF min_x > M(normalize_threshold) \/ min_y > M(normalize_threshold)
        THEN [value |-> [i \in 1..n |-> [x |-> bnd[i].x - min_x,
                                          y |-> bnd[i].y - min_y]],
              coord_offset |-> [x |-> min_x, y |-> min_y]]
        ELSE [value |-> bnd, coord_offset |-> offset]

\* Store.get_normalized_boreholes, under the coord_offset now in the store.
get_normalized_boreholes(bhs, offset) ==
    IF bhs = <<>> THEN <<>>
    ELSE IF offset.x > 0 \/ offset.y > 0
    THEN [i \in 1..Len(bhs) |->
             [x |-> Get(bhs[i], "x", 0) - offset.x,
              y |-> Get(bhs[i], "y", 0) - offset.y] @@ bhs[i]]
    ELSE bhs

\* 'x' in df.columns and 'y' in df.columns: some record has the key.
has_xy(data) ==
    /\ \E i \in 1..Len(data) : "x" \in DOMAIN data[i]
    /\ \E i \in 1..Len(data) : "y" \in DOMAIN data[i]

\* A boundary update that does not look at the stored boundary.
update_boundary_always(bnd, data) ==
    IF data # <<>> /\ has_xy(data)
    THEN LET xs == {data[i].x : i \in {k \in 1..Len(data) : "x" \in DOMAIN data[k]}}
             ys == {data[i].y : i \in {k \in 1..Len(data) : "y" \in DOMAIN data[k]}}
             min_x == CHOOSE v \in xs : \A u \in xs : v <= u
             max_x == CHOOSE v \in xs : \A u \in xs : v >= u
             min_y == CHOOSE v \in ys : \A u \in ys : v <= u
             max_y == CHOOSE v \in ys : \A u \in ys : v >= u
             margin == (max_x - min_x) \div 10
         IN  << [x |-> min_x - margin, y |-> min_y - margin],
                [x |-> max_x + margin, y |-> min_y - margin],
                [x |-> max_x + margin, y |-> max_y + margin],
                [x |-> min_x - margin, y |-> max_y + margin],
                [x |-> min_x - margin, y |-> min_y - margin] >>
    ELSE bnd

\* _update_boundary_if_needed(data): the boundary afterwards.  The margin is
\* a tenth of the x extent; the minimum and maximum skip missing values.
update_boundary_if_needed(bnd, data) ==
    IF bnd = <<>> /\ data # <<>> /\ has_xy(data)
    THEN LET xs == {data[i].x : i \in {k \in 1..Len(data) : "x" \in DOMAIN data[k]}}
             ys == {data[i].y : i \in {k \in 1..Len(data) : "y" \in DOMAIN data[k]}}
             min_x == CHOOSE v \in xs : \A u \in xs : v <= u
             max_x == CHOOSE v \in xs : \A u \in xs : v >= u
             min_y == CHOOSE v \in ys : \A u \in ys : v <= u
             max_y == CHOOSE v \in ys : \A u \in ys : v >= u
             margin == (max_x - min_x) \div 10
         IN  << [x |-> min_x - margin, y |-> min_y - margin],
                [x |-> max_x + margin, y |-> min_y - margin],
                [x |-> max_x + margin, y |-> max_y + margin],
                [x |-> min_x - margin, y |-> max_y + margin],
                [x |-> min_x - margin, y |-> min_y - margin] >>
    ELSE bnd

\* create_polygon_from_points on the ring of an axis-parallel rectangle, the
\* only rings the store holds here.
create_polygon_from_points(points) ==
    IF Len(points) < 3 THEN EmptyPolygon
    ELSE LET n == Len(points)
             min_x == MinOf([i \in 1..n |-> points[i].x], n)
             max_x == MaxOf([i \in 1..n |-> points[i].x], n)
             min_y == MinOf([i \in 1..n |-> points[i].y], n)
             max_y == MaxOf([i \in 1..n |-> points[i].y], n)
         IN  [x0 |-> min_x, y0 |-> min_y,
              rows |-> <<[h |-> max_y - min_y, w |-> max_x - min_x]>>]

\* _create_simple_geology_analyzer(boreholes): each borehole with a truthy
\* coal thickness (3 m when the record has none) gets one seam.
create_simple_geology_analyzer(bhs) ==
    [i \in 1..Len(bhs) |->
        LET coal_thickness == Get(bhs[i], "coalThickness", M(3))
        IN  [id |-> Get(bhs[i], "id", "unknown"),
             x |-> Get(bhs[i], "x", 0),
             y |-> Get(bhs[i], "y", 0),
             coal_seams |->
                IF coal_thickness # 0
                THEN <<[name |-> "main_seam", thickness |-> coal_thickness,
                        depth |-> M(100), roof_rock |-> "sandstone",
                        floor_rock |-> "mudstone"]>>
                ELSE <<>>]]

RECURSIVE sweep_all(_, _, _, _, _, _, _, _, _)
RECURSIVE sweep_from(_, _, _, _, _, _, _)
\* The strip loop resumed after one pass of its body.
sweep_from(area, rules, sp, fl, nxt, geology_analyzer, target) ==
    sweep_all(area, rules, sp, fl, nxt.current_y, nxt.workfaces, nxt.face_id,
              geology_analyzer, target)

\* The whole strip loop: the workfaces it leaves.
sweep_all(area, rules, sp, fl, y, wfs, fid, geology_analyzer, target) ==
    IF ~strip_fits(area, y, fl) THEN wfs
    ELSE sweep_from(area, rules, sp, fl,
                    sweep_strip(area, rules, sp, fl, y, wfs, fid,
                                geology_analyzer, target),
                    geology_analyzer, target)

\* Steps 6b to 8 of generate_smart_layout: the fallback when the loop left no
\* workface, else the roadways and the statistics.
layout_of_workfaces(mining_area, wfs, rules) ==
    IF wfs = <<>>
    THEN generate_fallback_layout(mining_area, AngleZero, centroid2(mining_area))
    ELSE [workfaces |-> wfs,
          roadways |-> generate_roadways_v2(wfs, AngleZero, centroid2(mining_area)),
          stats |-> layout_stats(wfs, rules)]

\* Steps 2 to 8 of generate_smart_layout on the mining area with bounds b.
layout_of_area(mining_area, b, pillar_width, rules, geology_analyzer, target) ==
    IF area_insufficient(mining_area) THEN insufficient_area_result
    ELSE layout_of_workfaces(
             mining_area,
             sweep_all(mining_area, rules,
                       choose_section_pillar(pillar_width, rules),
                       determine_face_length(b.max_y - b.min_y, rules),
                       b.min_y, <<>>, 1, geology_analyzer, target),
             rules)

\* Steps 1b to 8 of generate_smart_layout on the boundary polygon.
layout_of_polygon(mining_area, pillar_width, rules, geology_analyzer, target) ==
    layout_of_area(mining_area, bounds(mining_area), pillar_width, rules,
                   geology_analyzer, target)

\* generate_smart_layout from call to return, under a manual roadway hint
\* along the x axis (rotation_angle = 0).
generate_smart_layout(boundary_points, pillar_width, boundary_margin, rules, geology_analyzer, target) ==
    layout_of_polygon(
        buffer_inward(create_polygon_from_points(boundary_points), boundary_margin),
        pillar_width, rules, geology_analyzer, target)

\* A guard that lets every design request through.
boundary_never_missing(bnd) == FALSE

\* not store.boundary, the guard of generate_design
boundary_missing(bnd) == bnd = <<>>

\* resolution of the score grid, in metres
score_resolution == 50

\* resolution of the geology model, in grid points
geology_resolution == 50

\* --- what the clients send

Ring(x0, y0, w, h) ==
    << [x |-> x0, y |-> y0], [x |-> x0 + w, y |-> y0],
       [x |-> x0 + w, y |-> y0 + h], [x |-> x0, y |-> y0 + h] >>

\* Boundary files after normalize_columns: one that cannot be parsed, an
\* open ring at the origin, a closed ring far from it.
BoundaryFiles ==
    { <<>>,
      Ring(0, 0, M(1000), M(300)),
      Append(Ring(M(500), M(500), M(1000), M(300)), [x |-> M(500), y |-> M(500)]) }

BoreholeAt(id, x, y) == [id |-> id, x |-> x, y |-> y]

\* Borehole lists posted as JSON: none, three near the origin, three far
\* from it with their coal thickness, one without coordinates.
BoreholeLists ==
    { <<>>,
      << BoreholeAt("ZK1", M(100), M(100)), BoreholeAt("ZK2", M(900), M(150)),
         BoreholeAt("ZK3", M(500), M(300)) >>,
      << BoreholeAt("ZK1", M(600), M(600)) @@ [coalThickness |-> M(2)],
         BoreholeAt("ZK2", M(1400), M(650)) @@ [coalThickness |-> M(2)],
         BoreholeAt("ZK3", M(1000), M(800)) @@ [coalThickness |-> M(2)] >>,
      << [id |-> "ZK9"] >> }

\* Coordinate files after normalize_columns.
CoordinateFiles ==
    { <<>>,
      << BoreholeAt("ZK1", M(200), M(200)), BoreholeAt("ZK2", M(800), M(250)),
         BoreholeAt("ZK3", M(400), M(400)) >> }

LayerRow(id, thickness) ==
    [borehole_id |-> id, name |-> "coal", thickness |-> thickness,
     _source_file |-> "layers.csv"]

\* Layer files of a batch upload: none with rows, or rows for two boreholes.
LayerFiles ==
    { <<>>,
      << LayerRow("ZK1", M(2)), LayerRow("ZK1", M(4)), LayerRow("ZK2", M(3)) >> }

\* The coal thickness _generate_mock_data draws, 15 + random() * 10; one
\* draw stands for the boreholes of a merge.
MockThickness == {M(15), M(20)}

\* The cells np.random.randint(50, 100) fills the score grid with; one value
\* stands for the grid.
GridSamples == {50, 99}

\* Bodies of design requests: faceWidth is not read by the layout, and the
\* roadway hint along the x axis fixes the rotation at 0.
DesignRequests ==
    { [pillar_width |-> M(20), boundary_margin |-> M(30),
       mining_rules |-> DefaultRules, target_seam |-> NoTarget],
      [pillar_width |-> 0, boundary_margin |-> 0,
       mining_rules |-> DefaultRules, target_seam |-> NoTarget] }

\* merge_data's join of the coordinates with the mean thickness of each
\* borehole's layer rows; a borehole without rows gets 0.
merge_with_layers(coords, layers) ==
    [i \in 1..Len(coords) |->
        LET rows == {k \in 1..Len(layers) : layers[k].borehole_id = coords[i].id}
            n == Cardinality(rows)
            total == SumTo([k \in 1..Len(layers) |->
                               IF k \in rows THEN layers[k].thickness ELSE 0],
                           Len(layers))
            mean == IF n = 0 THEN 0 ELSE total \div n
        IN  [id |-> coords[i].id, x |-> coords[i].x, y |-> coords[i].y,
             borehole_id |-> IF n = 0 THEN 0 ELSE coords[i].id,
             thickness |-> mean, coalThickness |-> mean,
             rockHardness |-> 5, gasContent |-> 2, groundWater |-> 10]]

\* _generate_mock_data(coords); only the coal thickness of the random fields
\* is read again.
generate_mock_data(coords, thickness) ==
    [i \in 1..Len(coords) |->
        [id |-> coords[i].id, x |-> coords[i].x, y |-> coords[i].y,
         coalThickness |-> thickness]]

\* --- the handlers

\* Longest sequence of requests followed.
MaxRequests == 4

\* A handler answers one more request and leaves the other components alone.
StoreFrame ==
    /\ served < MaxRequests
    /\ served' = served + 1
    /\ UNCHANGED <<layoutVars, roadVars, geoVars, ruleVars>>

InitStore ==
    /\ EmptyStore
    /\ params = Null /\ pc = "idle" /\ rotated_area = EmptyPolygon
    /\ face_length = 0 /\ section_pillar = 0 /\ current_y = 0
    /\ workfaces = <<>> /\ face_id = 1 /\ strips = 0
    /\ result = Null /\ response = Null
    /\ road_args = Null /\ road_result = Null
    /\ analyzer = <<>> /\ target_seam = NoTarget /\ dip_result = Null
    /\ score_result = Null
    /\ mining_rules = DefaultRules /\ rule_check = Null /\ rotation = Null
    /\ echoed = Null

\* POST /upload/boundary
UploadBoundary ==
    /\ StoreFrame
    /\ \E file \in BoundaryFiles :
          IF file = <<>>
          THEN /\ reply' = [op |-> "upload_boundary", status |-> 400]
               /\ UNCHANGED boundary
          ELSE /\ boundary' = IF file[1] # file[Len(file)]
                              THEN Append(file, file[1]) ELSE file
               /\ reply' = [op |-> "upload_boundary", status |-> 200]
    /\ UNCHANGED <<boreholes, borehole_coordinates, borehole_layer_data,
                   geology_model, scores, design_result, coord_offset>>

\* POST /upload/borehole-coordinates
UploadCoordinates ==
    /\ StoreFrame
    /\ \E file \in CoordinateFiles :
          IF file = <<>>
          THEN /\ reply' = [op |-> "upload_coordinates", status |-> 400]
               /\ UNCHANGED borehole_coordinates
          ELSE /\ borehole_coordinates' = file
               /\ reply' = [op |-> "upload_coordinates", status |-> 200,
                            count |-> Len(file)]
    /\ UNCHANGED <<boundary, boreholes, borehole_layer_data, geology_model,
                   scores, design_result, coord_offset>>

\* POST /boreholes/
UploadBoreholesJson ==
    /\ StoreFrame
    /\ \E data \in BoreholeLists :
          /\ IF data = <<>>
             THEN UNCHANGED <<boreholes, boundary>>
             ELSE /\ boreholes' = data
                  /\ boundary' = update_boundary_if_needed(boundary, data)
          /\ reply' = [op |-> "upload_boreholes", status |-> 200,
                       count |-> Len(data)]
    /\ UNCHANGED <<borehole_coordinates, borehole_layer_data, geology_model,
                   scores, design_result, coord_offset>>

\* POST /boreholes/batch-upload
BatchUpload ==
    /\ StoreFrame
    /\ \E all_data \in LayerFiles :
          /\ borehole_layer_data' = all_data
          /\ reply' = [op |-> "batch_upload", status |-> 200]
    /\ UNCHANGED <<boundary, boreholes, borehole_coordinates, geology_model,
                   scores, design_result, coord_offset>>

\* POST /boreholes/merge-with-coordinates
MergeData ==
    /\ StoreFrame
    /\ IF borehole_coordinates = <<>>
       THEN /\ reply' = [op |-> "merge", status |-> 400]
            /\ UNCHANGED <<boreholes, boundary>>
       ELSE \E thickness \in MockThickness :
               LET merged == IF borehole_layer_data # <<>>
                             THEN merge_with_layers(borehole_coordinates,
                                                    borehole_layer_data)
                             ELSE generate_mock_data(borehole_coordinates, thickness)
               IN  /\ boreholes' = merged
                   /\ boundary' = update_boundary_if_needed(boundary, merged)
                   /\ reply' = [op |-> "merge", status |-> 200,
                                count |-> Len(merged)]
    /\ UNCHANGED <<borehole_coordinates, borehole_layer_data, geology_model,
                   scores, design_result, coord_offset>>

\* A clear that leaves the stored design where it is.
ClearProjectKeepsDesign ==
    /\ StoreFrame
    /\ boundary' = <<>>
    /\ boreholes' = <<>>
    /\ borehole_coordinates' = <<>>
    /\ borehole_layer_data' = <<>>
    /\ geology_model' = EmptyDict
    /\ scores' = EmptyDict
    /\ design_result' = design_result
    /\ coord_offset' = [x |-> 0, y |-> 0]
    /\ reply' = [op |-> "clear", status |-> 200]

\* POST /api/project/clear: Store.clear
ClearProject ==
    /\ StoreFrame
    /\ boundary' = <<>>
    /\ boreholes' = <<>>
    /\ borehole_coordinates' = <<>>
    /\ borehole_layer_data' = <<>>
    /\ geology_model' = EmptyDict
    /\ scores' = EmptyDict
    /\ design_result' = EmptyDict
    /\ coord_offset' = [x |-> 0, y |-> 0]
    /\ reply' = [op |-> "clear", status |-> 200]

\* generate_design once the layout is there: the store write and the response.
store_design(req, nb, normalized_boreholes, res) ==
    /\ coord_offset' = nb.coord_offset
    /\ design_result' =
          [panels |-> res.workfaces, roadways |-> res.roadways,
           stats |-> res.stats,
           designParams |-> [pillarWidth |-> req.pillar_width,
                             boundaryMargin |-> req.boundary_margin,
                             miningRules |-> req.mining_rules]]
    /\ reply' = [op |-> "design", status |-> 200, success |-> TRUE,
                 panels |-> res.workfaces, roadways |-> res.roadways,
                 boundary |-> nb.value,
                 boreholes |-> normalized_boreholes,
                 stats |-> res.stats]

\* generate_design on the normalized boundary and boreholes: the analyzer,
\* the layout, the store write and the response.
design_of_boreholes(req, nb, normalized_boreholes) ==
    store_design(req, nb, normalized_boreholes,
        generate_smart_layout(nb.value, req.pillar_width, req.boundary_margin,
            req.mining_rules,
            IF normalized_boreholes # <<>>
            THEN create_simple_geology_analyzer(normalized_boreholes)
            ELSE NoAnalyzer,
            req.target_seam))

\* generate_design past its guard: the boreholes follow the offset the
\* boundary's normalization left in the store.
design_of_boundary(req, nb) ==
    design_of_boreholes(req, nb, get_normalized_boreholes(boreholes, nb.coord_offset))

\* POST /design/: generate_design
GenerateDesign ==
    /\ StoreFrame
    /\ \E req \in DesignRequests :
          IF boundary_missing(boundary)
          THEN /\ reply' = [op |-> "design", status |-> 400]
               /\ UNCHANGED <<design_result, coord_offset>>
          ELSE design_of_boundary(req, get_normalized_boundary(boundary, coord_offset))
    /\ UNCHANGED <<boundary, boreholes, borehole_coordinates, borehole_layer_data,
                   geology_model, scores>>

\* Bodies of validate requests: no miningRules, or a rule set of the client.
ValidateRequests ==
    {EmptyDict, [miningRules |-> [faceLength |-> [min |-> M(100), max |-> M(200)]]]}

\* POST /design/validate: validate_design
ValidateDesign ==
    /\ StoreFrame
    /\ \E body \in ValidateRequests :
          IF design_result = EmptyDict
          THEN reply' = [op |-> "validate", status |-> 400]
          ELSE LET panels == Get(design_result, "panels", <<>>)
                   rules == from_dict(Get(body, "miningRules", EmptyDict))
                   valid == {i \in 1..Len(panels) :
                                /\ validate_face_length(rules, panels[i].length).ok
                                /\ validate_advance_length(rules, panels[i].width).ok}
               IN  reply' = [op |-> "validate", status |-> 200,
                             totalPanels |-> Len(panels),
                             validPanels |-> Cardinality(valid),
                             invalidPanels |-> Len(panels) - Cardinality(valid)]
    /\ UNCHANGED storeFields

\* GET /design/export/dxf: export_dxf; the drawing itself is not kept.
ExportDxf ==
    /\ StoreFrame
    /\ reply' = [op |-> "export", status |-> IF design_result = EmptyDict
                                             THEN 400 ELSE 200]
    /\ UNCHANGED storeFields

\* The grid dict calculate_score builds over the normalized boreholes.
score_grids(normalized_boreholes, sample) ==
    LET n == Len(normalized_boreholes)
        xs == {normalized_boreholes[i].x :
                  i \in {k \in 1..n : "x" \in DOMAIN normalized_boreholes[k]}}
        ys == {normalized_boreholes[i].y :
                  i \in {k \in 1..n : "y" \in DOMAIN normalized_boreholes[k]}}
        min_x == CHOOSE v \in xs : \A u \in xs : v <= u
        max_x == CHOOSE v \in xs : \A u \in xs : v >= u
        min_y == CHOOSE v \in ys : \A u \in ys : v <= u
        max_y == CHOOSE v \in ys : \A u \in ys : v >= u
    IN  [composite |->
            [data |-> sample, minX |-> min_x, minY |-> min_y,
             cols |-> (max_x - min_x) \div M(score_resolution) + 1,
             rows |-> (max_y - min_y) \div M(score_resolution) + 1,
             stepX |-> M(score_resolution), stepY |-> M(score_resolution),
             resolution |-> M(score_resolution)]]

\* POST /score/: calculate_score.  A borehole list without coordinates makes
\* df['x'] raise after the boundary was normalized.
CalculateScore ==
    /\ StoreFrame
    /\ IF boreholes = <<>>
       THEN /\ reply' = [op |-> "calculate_score", status |-> 200, boreholes |-> <<>>]
            /\ UNCHANGED <<scores, coord_offset>>
       ELSE LET nb == get_normalized_boundary(boundary, coord_offset)
                normalized_boreholes ==
                    get_normalized_boreholes(boreholes, nb.coord_offset)
            IN  /\ coord_offset' = nb.coord_offset
                /\ IF has_xy(normalized_boreholes)
                   THEN \E sample \in GridSamples :
                           /\ scores' = [grids |-> score_grids(normalized_boreholes,
                                                               sample)]
                           /\ reply' = [op |-> "calculate_score", status |-> 200,
                                        boreholes |-> normalized_boreholes,
                                        boundary |-> nb.value]
                   ELSE /\ reply' = [op |-> "calculate_score", status |-> 500]
                        /\ UNCHANGED scores
    /\ UNCHANGED <<boundary, boreholes, borehole_coordinates, borehole_layer_data,
                   geology_model, design_result>>

\* GET /score/: get_score normalizes the boreholes before the boundary.
GetScore ==
    /\ StoreFrame
    /\ IF scores = EmptyDict
       THEN /\ reply' = [op |-> "get_score", status |-> 200]
            /\ UNCHANGED coord_offset
       ELSE LET normalized_boreholes ==
                    get_normalized_boreholes(boreholes, coord_offset)
                nb == get_normalized_boundary(boundary, coord_offset)
            IN  /\ coord_offset' = nb.coord_offset
                /\ reply' = [op |-> "get_score", status |-> 200,
                             boreholes |-> normalized_boreholes,
                             boundary |-> nb.value]
    /\ UNCHANGED <<boundary, boreholes, borehole_coordinates, borehole_layer_data,
                   geology_model, scores, design_result>>

\* GET /boundary/
GetBoundary ==
    /\ StoreFrame
    /\ LET nb == get_normalized_boundary(boundary, coord_offset)
       IN  /\ coord_offset' = nb.coord_offset
           /\ reply' = [op |-> "get_boundary", status |-> 200, boundary |-> nb.value]
    /\ UNCHANGED <<boundary, boreholes, borehole_coordinates, borehole_layer_data,
                   geology_model, scores, design_result>>

\* POST /geology/: generate_geology with the default resolution; the
\* interpolated grid itself is kept as a token.
GenerateGeology ==
    /\ StoreFrame
    /\ LET pts == {i \in 1..Len(boreholes) :
                      {"x", "y", "coalThickness"} \subseteq DOMAIN boreholes[i]}
           xs == {boreholes[i].x : i \in pts}
           ys == {boreholes[i].y : i \in pts}
       IN  IF boreholes = <<>> \/ Cardinality(pts) < 3
           THEN /\ reply' = [op |-> "generate_geology", status |-> 400]
                /\ UNCHANGED geology_model
           ELSE /\ geology_model' =
                      [resolution |-> geology_resolution,
                       minX |-> CHOOSE v \in xs : \A u \in xs : v <= u,
                       minY |-> CHOOSE v \in ys : \A u \in ys : v <= u,
                       maxX |-> CHOOSE v \in xs : \A u \in xs : v >= u,
                       maxY |-> CHOOSE v \in ys : \A u \in ys : v >= u,
                       data |-> "grid"]
                /\ reply' = [op |-> "generate_geology", status |-> 200]
    /\ UNCHANGED <<boundary, boreholes, borehole_coordinates, borehole_layer_data,
                   scores, design_result, coord_offset>>

Next ==
    \/ UploadBoundary
    \/ UploadCoordinates
    \/ UploadBoreholesJson
    \/ BatchUpload
    \/ MergeData
    \/ ClearProject
    \/ GenerateDesign
    \/ ValidateDesign
    \/ ExportDxf
    \/ CalculateScore
    \/ GetScore
    \/ GetBoundary
    \/ GenerateGeology

Spec == InitStore /\ [][Next]_vars

-----------------------------------------------------------------------------
(* Properties of the store and its handlers *)

\* The last request was a design request that was answered with a layout.
DesignAnswered == reply # Null /\ reply.op = "design" /\ reply.status = 200

\* C5 -- same coordinate frame: in a design request the offset subtracted
\* from the borehole coordinates equals the offset subtracted from the
\* boundary coordinates, after any sequence of uploads, clears and design or
\* score requests.
C5_SameCoordinateFrame ==
    (DesignAnswered /\ reply.boreholes # <<>>) =>
        /\ boundary[1].x - reply.boundary[1].x
              = Get(boreholes[1], "x", 0) - Get(reply.boreholes[1], "x", 0)
        /\ boundary[1].y - reply.boundary[1].y
              = Get(boreholes[1], "y", 0) - Get(reply.boreholes[1], "y", 0)

\* C9 -- missing boundary: a design request issued while the stored boundary
\* is empty is answered with status 400 and leaves every store field
\* unchanged.
C9_MissingBoundaryRejected ==
    [][(boundary = <<>> /\ served' # served /\ reply'.op = "design")
          => (reply'.status = 400 /\ storeFields' = storeFields)]_vars

\* A design request was refused for want of a boundary while the store held
\* borehole data.
C9_Witness ==
    /\ reply # Null
    /\ reply.op = "design"
    /\ reply.status = 400
    /\ boundary = <<>>
    /\ (boreholes # <<>> \/ borehole_coordinates # <<>>)

\* C27 -- borehole uploads preserve the boundary: a JSON upload or a merge
\* of borehole data never changes a stored non-empty boundary; the boundary
\* changes only when none was stored, to a ring around the new boreholes'
\* coordinates; and posting an empty borehole list leaves the stored
\* boreholes and the stored boundary as they were.
C27_BoreholeUploadsKeepBoundary ==
    [][(served' # served /\ reply'.op \in {"upload_boreholes", "merge"}) =>
          /\ boundary # <<>> => boundary' = boundary
          /\ boundary' # boundary =>
                 /\ boundary = <<>>
                 /\ boreholes' # <<>>
                 /\ \A i \in 1..Len(boreholes') :
                        {"x", "y"} \subseteq DOMAIN boreholes'[i] =>
                            /\ boundary'[1].x <= boreholes'[i].x
                            /\ boreholes'[i].x <= boundary'[3].x
                            /\ boundary'[1].y <= boreholes'[i].y
                            /\ boreholes'[i].y <= boundary'[3].y
          /\ (reply'.op = "upload_boreholes" /\ reply'.count = 0) =>
                 (boreholes' = boreholes /\ boundary' = boundary)]_vars

\* A borehole list was posted while the uploaded boundary at the origin was
\* stored, and that boundary is still there.
C27_Witness ==
    /\ reply # Null
    /\ reply.op = "upload_boreholes"
    /\ reply.count = 3
    /\ boundary = Append(Ring(0, 0, M(1000), M(300)), [x |-> 0, y |-> 0])
    /\ boreholes # <<>>

\* The store as Store.clear leaves it.
Cleared ==
    /\ boundary = <<>> /\ boreholes = <<>>
    /\ borehole_coordinates = <<>> /\ borehole_layer_data = <<>>
    /\ geology_model = EmptyDict /\ scores = EmptyDict
    /\ design_result = EmptyDict
    /\ coord_offset = [x |-> 0, y |-> 0]

\* C30 -- project clear resets state: from any store state a clear leaves
\* every list empty, every object empty and coord_offset at {x: 0, y: 0};
\* from then on, as long as no upload is made, the store stays so, a design
\* request is answered with 400 and validate and export requests are
\* answered with 400.
C30_ClearResets ==
    [][/\ (served' # served /\ reply'.op = "clear") => Cleared'
       /\ (/\ Cleared
           /\ served' # served
           /\ reply'.op \notin {"upload_boundary", "upload_coordinates",
                                "upload_boreholes", "batch_upload"})
              => /\ Cleared'
                 /\ reply'.op \in {"design", "validate", "export"}
                       => reply'.status = 400]_vars

\* After three earlier requests a validate request found the cleared store
\* and was refused.
C30_Witness ==
    /\ reply # Null
    /\ reply.op = "validate"
    /\ reply.status = 400
    /\ Cleared
    /\ served = 4

=============================================================================
